---- MODULE Spec2Model ----
(***************************************************************************)
(* The SQLite pharmacy ledger of pharmacy_cli/pharmacy_cli_sqlite.py as a  *)
(* state machine.  Several clients (CLI processes sharing pharmacy.db) run *)
(* the operations of class Pharmacy; every `with self._get_conn()` block   *)
(* that writes is one atomic step (SQLite serialises writers and the       *)
(* connection context manager commits on success and rolls back on an      *)
(* exception), and every helper that opens its own connection to read      *)
(* (_get_medicine, _get_supplier_id) is a step of its own, so that other   *)
(* clients can commit between a read and the write that depends on it.     *)
(*                                                                         *)
(* The in-memory ledger of Pharmacy_management_system.py is the second     *)
(* variant of the program: one process, every method one step.  A run is   *)
(* a run of one of the two variants.                                       *)
(*                                                                         *)
(* Money: price and total_amount are REAL in the schema and float in       *)
(* Python, that is IEEE-754 binary64.  In Spec every price is a whole      *)
(* number and every subtotal a multiple of 20 below 2^31, on which the     *)
(* binary64 products and sums of the code are exact (WholeAmountsExact);   *)
(* those amounts are kept as integers.  SpecPricing runs the arithmetic of *)
(* generate_bill on binary64 values, rounding included, over a price list  *)
(* with cents.                                                             *)
(***************************************************************************)
EXTENDS Integers, Sequences, FiniteSets, TLC

\* ------------------------------------------------------------------ bounds
MaxQty == 2
MaxDay == 2

\* ------------------------------------------------------- program constants
TaxPercent == 5
DiscountPercent == 10
DiscountThreshold == 1000

\* ------------------------------------------------------------- value sets
NULL == "NULL"

\* the processes that share pharmacy.db, each making one call
Clients == {1, 2}

MedNames == {"A", "B"}

Prices == {0, 500}

\* date.isoformat() of the days the model knows, by day number
DayStr == <<"2024-01-01", "2024-01-02", "2024-01-03", "2024-01-04">>

ValueError == 0

\* date.isoformat(): the text of a day
IsoFormat(d) == DayStr[d]

\* datetime.strptime(s, "%Y-%m-%d").date(): the day of a text, or ValueError
Strptime(s) ==
    IF \E d \in DOMAIN DayStr : DayStr[d] = s
    THEN CHOOSE d \in DOMAIN DayStr : DayStr[d] = s
    ELSE ValueError

\* what _get_medicine returns when no row matches
NoneMed == [id |-> 0, price |-> 0, quantity |-> 0, expiry |-> NULL]

\* the empty dict meds_info
EmptyInfo == [n \in {} |-> NoneMed]

\* ---------------------------------------------------------------- state
VARIABLES
    medicines,          \* table medicines: set of rows
    med_seq,            \* AUTOINCREMENT counter of medicines (ids are never reused)
    suppliers,          \* table suppliers: set of names (name is UNIQUE; the name stands for the id)
    customers,          \* table customers: sequence of rows, index = id
    prescriptions,      \* table prescriptions: sequence of rows, index = id
    prescription_items, \* table prescription_items: sequence of rows
    sales,              \* table sales: sequence of rows, index = id
    sale_items,         \* table sale_items: sequence of rows
    today,              \* date.today(), as a day number
    pc,                 \* where each client is in its current call
    frame,              \* the locals of each client's current call
    ret,                \* what each client's call returned
    variant,            \* which program runs: "sqlite" or "memory"
    mem_medicines,      \* in-memory ledger: self.medicines, a dict by name
    mem_prescriptions   \* in-memory ledger: self.prescriptions, a list

vars == <<medicines, med_seq, suppliers, customers, prescriptions,
          prescription_items, sales, sale_items, today, pc, frame, ret,
          variant, mem_medicines, mem_prescriptions>>

memvars == <<variant, mem_medicines, mem_prescriptions>>

dbvars == <<medicines, med_seq, suppliers, customers, prescriptions,
            prescription_items, sales, sale_items>>

\* the tables a transaction reads and writes, as one value
DB == [medicines |-> medicines, med_seq |-> med_seq, sales |-> sales,
       sale_items |-> sale_items, prescriptions |-> prescriptions,
       prescription_items |-> prescription_items]

\* the tables after a transaction ended with value db
SetDB(db) ==
    /\ medicines' = db.medicines
    /\ med_seq' = db.med_seq
    /\ sales' = db.sales
    /\ sale_items' = db.sale_items
    /\ prescriptions' = db.prescriptions
    /\ prescription_items' = db.prescription_items

IdleFrame ==
    [name |-> NULL, quantity |-> 0, price |-> 0, expiry |-> NULL,
     supplier_id |-> NULL, med |-> NoneMed, purchases |-> <<>>, idx |-> 0,
     meds_info |-> EmptyInfo, customer |-> NULL, customer_id |-> 0,
     supplier_name |-> NULL]

NoRet == [op |-> "none", outcome |-> "none", value |-> 0]

\* ------------------------------------------------------------ SQL helpers
MedIds(meds) == {r.id : r \in meds}

RowById(meds, i) == CHOOSE r \in meds : r.id = i

\* SELECT ... FROM medicines WHERE name = ? ; fetchone(): the first matching
\* row in rowid order, or no row
SelectByName(meds, name) ==
    LET rows == {r \in meds : r.name = name}
    IN IF rows = {} THEN NoneMed
       ELSE LET r == CHOOSE x \in rows : \A y \in rows : x.id <= y.id
            IN [id |-> r.id, price |-> r.price, quantity |-> r.quantity,
                expiry |-> r.expiry]

\* _get_medicine(name)
GetMedicine(name) == SelectByName(medicines, name)

\* UPDATE medicines SET quantity = ? WHERE id = ? (no row: nothing happens)
UpdateQuantity(db, id, q) ==
    [db EXCEPT !.medicines =
        {IF r.id = id THEN [r EXCEPT !.quantity = q] ELSE r : r \in @}]

\* INSERT INTO sales (sale_date, total_amount)
InsertSale(db, d, total) ==
    [db EXCEPT !.sales = Append(@, [sale_date |-> d, total_amount |-> total])]

\* the FOREIGN KEY checks of an INSERT INTO sale_items (PRAGMA foreign_keys = ON)
SaleItemFkOk(db, sale_id, med_id) ==
    /\ sale_id \in 1..Len(db.sales)
    /\ med_id \in MedIds(db.medicines)

\* a write that keeps one sale_items row per medicine: the row of an earlier
\* sale of the medicine is overwritten
InsertSaleItemPerMedicine(db, sale_id, med_id, q, p) ==
    LET new == [sale_id |-> sale_id, medicine_id |-> med_id,
                quantity |-> q, unit_price |-> p]
        old == {i \in 1..Len(db.sale_items) :
                   db.sale_items[i].medicine_id = med_id}
    IN [db EXCEPT !.sale_items =
          IF old = {} THEN Append(@, new)
          ELSE [i \in 1..Len(@) |-> IF i \in old THEN new ELSE @[i]]]

\* INSERT INTO sale_items (sale_id, medicine_id, quantity, unit_price)
InsertSaleItem(db, sale_id, med_id, q, p) ==
    [db EXCEPT !.sale_items =
        Append(@, [sale_id |-> sale_id, medicine_id |-> med_id,
                   quantity |-> q, unit_price |-> p])]

\* a connection that keeps the writes of a block that raised
WithConnNoRollback(before, after, ok) == after

\* `with self._get_conn() as conn:` around writes: the block's writes are
\* committed when it ends normally and rolled back when it raises
WithConn(before, after, ok) == IF ok THEN after ELSE before

\* ---------------------------------------------------------- client steps
\* a client that has not made its call yet
Idle(c) == variant = "sqlite" /\ pc[c] = "idle"

\* a client starts a call: its position, its locals, no result yet
Enter(c, where, locals) ==
    /\ pc' = [pc EXCEPT ![c] = where]
    /\ frame' = [frame EXCEPT ![c] = locals]
    /\ UNCHANGED ret

\* a client's call returns; its locals stay as the record of the call
Return(c, op, outcome, value) ==
    /\ pc' = [pc EXCEPT ![c] = "done"]
    /\ UNCHANGED frame
    /\ ret' = [ret EXCEPT ![c] = [op |-> op, outcome |-> outcome, value |-> value]]

\* -------------------------------------------------------- sell_medicine
\* an expiry check that also blocks on the expiry day itself
ExpiryBlocksSaleLe(expiry_str, day) ==
    /\ expiry_str # NULL
    /\ Strptime(expiry_str) # ValueError
    /\ Strptime(expiry_str) <= day

\* an expiry check that also blocks on a text that does not parse
ExpiryBlocksSaleUnparsed(expiry_str, day) ==
    /\ expiry_str # NULL
    /\ \/ Strptime(expiry_str) = ValueError
       \/ Strptime(expiry_str) < day

\* the expiry check of sell_medicine: the stored text is set, parses, and
\* its date is before today; text that does not parse only warns
ExpiryBlocksSale(expiry_str, day) ==
    /\ expiry_str # NULL
    /\ Strptime(expiry_str) # ValueError
    /\ Strptime(expiry_str) < day

\* the checks with the expiry check before the stock check
SellOutcomeExpiryFirst(med, q, day) ==
    IF med = NoneMed THEN "NotFound"
    ELSE IF ExpiryBlocksSale(med.expiry, day) THEN "Expired"
    ELSE IF med.quantity < q THEN "InsufficientStock"
    ELSE "Ok"

\* the checks without the stock check
SellOutcomeNoStockCheck(med, q, day) ==
    IF med = NoneMed THEN "NotFound"
    ELSE IF ExpiryBlocksSale(med.expiry, day) THEN "Expired"
    ELSE "Ok"

\* the checks of sell_medicine in the order of the code
SellOutcome(med, q, day) ==
    IF med = NoneMed THEN "NotFound"
    ELSE IF med.quantity < q THEN "InsufficientStock"
    ELSE IF ExpiryBlocksSale(med.expiry, day) THEN "Expired"
    ELSE "Ok"

\* new_qty = med["quantity"] - quantity
NewQty(db, med, q) == med.quantity - q

\* the write block of sell_medicine: UPDATE medicines, INSERT sales,
\* INSERT sale_items; [db, ok]
SellTx(db, med, q, day) ==
    LET w1 == UpdateQuantity(db, med.id, NewQty(db, med, q))
        w2 == InsertSale(w1, IsoFormat(day), med.price * q)
        sale_id == Len(w2.sales)
        ok == SaleItemFkOk(w2, sale_id, med.id)
        w3 == InsertSaleItem(w2, sale_id, med.id, q, med.price)
    IN [db |-> WithConn(db, w3, ok), ok |-> ok]

\* sell_medicine, first statement: med = self._get_medicine(name)
SellRead(c, name, q) ==
    /\ Idle(c)
    /\ Enter(c, "sell", [IdleFrame EXCEPT !.name = name, !.quantity = q,
                                          !.med = GetMedicine(name)])
    /\ UNCHANGED <<dbvars, suppliers, today>>
    /\ UNCHANGED memvars

\* sell_medicine, the rest: the checks, then the write block
SellFinish(c) ==
    /\ pc[c] = "sell"
    /\ LET f == frame[c]
           o == SellOutcome(f.med, f.quantity, today)
       IN IF o # "Ok"
          THEN /\ Return(c, "sell", o, 0)
               /\ UNCHANGED dbvars
          ELSE /\ LET r == SellTx(DB, f.med, f.quantity, today)
                  IN /\ SetDB(r.db)
                     /\ IF r.ok
                        THEN Return(c, "sell", "Ok", f.med.price * f.quantity)
                        ELSE Return(c, "sell", "IntegrityError", 0)
               /\ UNCHANGED <<suppliers, customers>>
    /\ UNCHANGED today
    /\ UNCHANGED memvars

\* --------------------------------------------------------- add_medicine
\* _get_supplier_id(name): the id of the supplier of that name, or None
GetSupplierId(name) == IF name \in suppliers THEN name ELSE NULL

\* add_medicine up to the supplier lookup: an unknown supplier only prints
AddCall(c, name, price, q, supplier_name, expiry) ==
    /\ Idle(c)
    /\ Enter(c, "add_select",
             [IdleFrame EXCEPT !.name = name, !.price = price, !.quantity = q,
                               !.expiry = expiry,
                               !.supplier_name = supplier_name,
                               !.supplier_id = IF supplier_name # NULL
                                               THEN GetSupplierId(supplier_name)
                                               ELSE NULL])
    /\ UNCHANGED <<dbvars, today>>
    /\ UNCHANGED memvars

\* add_medicine: SELECT id, quantity FROM medicines WHERE name = ?
AddSelect(c) ==
    /\ pc[c] = "add_select"
    /\ pc' = [pc EXCEPT ![c] = "add_write"]
    /\ frame' = [frame EXCEPT ![c].med = GetMedicine(frame[c].name)]
    /\ UNCHANGED <<dbvars, today, ret>>
    /\ UNCHANGED memvars

\* add_medicine: the UPDATE of the row read, or the INSERT of a new row
AddWrite(c) ==
    /\ pc[c] = "add_write"
    /\ LET f == frame[c]
       IN IF f.med # NoneMed
          THEN /\ medicines' =
                    {IF r.id = f.med.id
                     THEN [r EXCEPT !.price = f.price,
                                    !.quantity = f.med.quantity + f.quantity,
                                    !.supplier_id = f.supplier_id,
                                    !.expiry = f.expiry]
                     ELSE r : r \in medicines}
               /\ UNCHANGED med_seq
               /\ Return(c, "add", "Updated", f.med.quantity + f.quantity)
          ELSE /\ medicines' = medicines \cup
                    {[id |-> med_seq + 1, name |-> f.name, price |-> f.price,
                      quantity |-> f.quantity, supplier_id |-> f.supplier_id,
                      expiry |-> f.expiry]}
               /\ med_seq' = med_seq + 1
               /\ Return(c, "add", "Inserted", f.quantity)
    /\ UNCHANGED <<suppliers, customers, prescriptions, prescription_items,
                   sales, sale_items, today>>
    /\ UNCHANGED memvars

\* ------------------------------------- create_medicine (POST /medicines)
\* create_medicine up to get_supplier_id_by_name: the supplier's id when
\* there is a supplier of that name; on None create_or_get_supplier is next
WebCreateCall(c, name, price, q, supplier_name, expiry) ==
    /\ Idle(c)
    /\ Enter(c,
             IF supplier_name # NULL /\ GetSupplierId(supplier_name) = NULL
             THEN "web_supplier" ELSE "web_insert",
             [IdleFrame EXCEPT !.name = name, !.price = price, !.quantity = q,
                               !.expiry = expiry,
                               !.supplier_name = supplier_name,
                               !.supplier_id = IF supplier_name # NULL
                                               THEN GetSupplierId(supplier_name)
                                               ELSE NULL])
    /\ UNCHANGED <<dbvars, today>>
    /\ UNCHANGED memvars

\* create_or_get_supplier: the id of the supplier of that name, inserted
\* when no row has the name
WebCreateSupplier(c) ==
    /\ pc[c] = "web_supplier"
    /\ suppliers' = suppliers \cup {frame[c].supplier_name}
    /\ pc' = [pc EXCEPT ![c] = "web_insert"]
    /\ frame' = [frame EXCEPT ![c].supplier_id = frame[c].supplier_name]
    /\ UNCHANGED <<medicines, med_seq, customers, prescriptions,
                   prescription_items, sales, sale_items, today, ret>>
    /\ UNCHANGED memvars

\* create_medicine: INSERT INTO medicines, whatever rows the table has
WebInsert(c) ==
    /\ pc[c] = "web_insert"
    /\ LET f == frame[c]
       IN /\ medicines' = medicines \cup
               {[id |-> med_seq + 1, name |-> f.name, price |-> f.price,
                 quantity |-> f.quantity, supplier_id |-> f.supplier_id,
                 expiry |-> f.expiry]}
          /\ med_seq' = med_seq + 1
          /\ Return(c, "create", "Inserted", med_seq + 1)
    /\ UNCHANGED <<suppliers, customers, prescriptions, prescription_items,
                   sales, sale_items, today>>
    /\ UNCHANGED memvars

\* ------------------------------------------------------ delete_medicine
\* the medicine ids that rows of sale_items and prescription_items reference
ReferencedMedIds ==
    {sale_items[i].medicine_id : i \in 1..Len(sale_items)} \cup
    {prescription_items[i].medicine_id : i \in 1..Len(prescription_items)}

\* a DELETE on a connection that does not enforce the foreign keys
DeleteMedicineNoFk(c, name) ==
    /\ Idle(c)
    /\ frame' = [frame EXCEPT ![c].name = name]
    /\ LET rows == {r \in medicines : r.name = name}
       IN /\ medicines' = medicines \ rows
          /\ ret' = [ret EXCEPT ![c] =
                       [op |-> "delete",
                        outcome |-> IF rows = {} THEN "NotFound" ELSE "Ok",
                        value |-> 0]]
    /\ pc' = [pc EXCEPT ![c] = "done"]
    /\ UNCHANGED <<med_seq, suppliers, customers, prescriptions,
                   prescription_items, sales, sale_items, today>>
    /\ UNCHANGED memvars

\* delete_medicine: DELETE FROM medicines WHERE name = ?, under foreign_keys = ON
DeleteMedicine(c, name) ==
    /\ Idle(c)
    /\ frame' = [frame EXCEPT ![c].name = name]
    /\ LET rows == {r \in medicines : r.name = name}
       IN /\ medicines' = IF MedIds(rows) \cap ReferencedMedIds = {}
                          THEN medicines \ rows ELSE medicines
          /\ ret' = [ret EXCEPT ![c] =
                       [op |-> "delete",
                        outcome |-> IF rows = {} THEN "NotFound"
                                    ELSE IF MedIds(rows) \cap ReferencedMedIds = {}
                                         THEN "Ok" ELSE "IntegrityError",
                        value |-> 0]]
    /\ pc' = [pc EXCEPT ![c] = "done"]
    /\ UNCHANGED <<med_seq, suppliers, customers, prescriptions,
                   prescription_items, sales, sale_items, today>>
    /\ UNCHANGED memvars

\* -------------------------------------------------------- generate_bill
\* a first loop that only checks that the medicine exists
ResolvedIgnoringStock(med, qty) == med # NoneMed

\* the two checks of the first loop of generate_bill
Resolved(med, qty) == med # NoneMed /\ ~(med.quantity < qty)

\* subtotal += med["price"] * qty over the lines kept in meds_info, from line i on
RECURSIVE SubtotalFrom(_, _, _)
SubtotalFrom(purchases, meds_info, i) ==
    IF i > Len(purchases) THEN 0
    ELSE (IF purchases[i].name \in DOMAIN meds_info
          THEN meds_info[purchases[i].name].price * purchases[i].qty
          ELSE 0) + SubtotalFrom(purchases, meds_info, i + 1)

Subtotal(purchases, meds_info) == SubtotalFrom(purchases, meds_info, 1)

\* tax, discount and total of generate_bill, on whole amounts
BillTotal(subtotal) ==
    LET tax == (subtotal * TaxPercent) \div 100
        discount == IF subtotal >= DiscountThreshold
                    THEN (subtotal * DiscountPercent) \div 100 ELSE 0
    IN subtotal + tax - discount

\* a bill that never returns early
BillShortCircuitNever(subtotal) == FALSE

\* if subtotal == 0.0: return 0.0
BillShortCircuit(subtotal) == subtotal = 0

\* a stock update that takes one unit whatever the line asks
BillNewQtyByOne(med, qty) == med.quantity - 1

\* new_qty = med["quantity"] - qty
BillNewQty(med, qty) == med.quantity - qty

\* the loop of the write block of generate_bill from line i on: for every
\* line kept in meds_info an INSERT INTO sale_items and an UPDATE medicines;
\* the first statement that raises ends the loop; [db, ok]
RECURSIVE BillLoop(_, _, _, _, _)
BillLoop(work, purchases, meds_info, sale_id, i) ==
    IF i > Len(purchases) THEN [db |-> work, ok |-> TRUE]
    ELSE IF purchases[i].name \notin DOMAIN meds_info
    THEN BillLoop(work, purchases, meds_info, sale_id, i + 1)
    ELSE LET med == meds_info[purchases[i].name]
             qty == purchases[i].qty
         IN IF ~SaleItemFkOk(work, sale_id, med.id)
            THEN [db |-> work, ok |-> FALSE]
            ELSE BillLoop(
                   UpdateQuantity(
                     InsertSaleItem(work, sale_id, med.id, qty, med.price),
                     med.id, BillNewQty(med, qty)),
                   purchases, meds_info, sale_id, i + 1)

\* the write block of generate_bill: INSERT INTO sales, then the loop; [db, ok]
BillTx(db, purchases, meds_info, total, day) ==
    LET w0 == InsertSale(db, IsoFormat(day), total)
        r == BillLoop(w0, purchases, meds_info, Len(w0.sales), 1)
    IN [db |-> WithConn(db, r.db, r.ok), ok |-> r.ok]

\* generate_bill is called with an ordered mapping name -> quantity
BillCall(c, purchases) ==
    /\ Idle(c)
    /\ Enter(c, "bill", [IdleFrame EXCEPT !.purchases = purchases, !.idx = 1])
    /\ UNCHANGED <<dbvars, today>>
    /\ UNCHANGED memvars

\* generate_bill, first loop, one line: _get_medicine and the two checks
BillRead(c) ==
    /\ pc[c] = "bill"
    /\ frame[c].idx <= Len(frame[c].purchases)
    /\ LET f == frame[c]
           line == f.purchases[f.idx]
           med == GetMedicine(line.name)
       IN frame' = [frame EXCEPT
                      ![c].idx = f.idx + 1,
                      ![c].meds_info = IF Resolved(med, line.qty)
                                       THEN (line.name :> med) @@ f.meds_info
                                       ELSE f.meds_info]
    /\ UNCHANGED <<dbvars, today, pc, ret>>
    /\ UNCHANGED memvars

\* generate_bill after the first loop, given what its arithmetic produced:
\* the return of 0.0, or the write block and the return of the total
BillEnd(c, short_circuit, zero, total) ==
    /\ pc[c] = "bill"
    /\ frame[c].idx > Len(frame[c].purchases)
    /\ LET f == frame[c]
       IN IF short_circuit
          THEN /\ Return(c, "bill", "Zero", zero)
               /\ UNCHANGED dbvars
          ELSE /\ LET r == BillTx(DB, f.purchases, f.meds_info, total, today)
                  IN /\ SetDB(r.db)
                     /\ IF r.ok
                        THEN Return(c, "bill", "Ok", total)
                        ELSE Return(c, "bill", "IntegrityError", zero)
               /\ UNCHANGED <<suppliers, customers>>
    /\ UNCHANGED today
    /\ UNCHANGED memvars

\* generate_bill after the first loop, on whole amounts
BillFinish(c) ==
    LET subtotal == Subtotal(frame[c].purchases, frame[c].meds_info)
    IN BillEnd(c, BillShortCircuit(subtotal), 0, BillTotal(subtotal))

\* ------------------------------------------------- binary64 arithmetic
\* Python's float and SQLite's REAL are IEEE-754 binary64.  A finite
\* non-negative binary64 value x that is a multiple of 2^-F64Scale is held
\* as the natural number x * 2^F64Scale, written in limbs of LimbBits bits,
\* least significant first, without leading zeros (0 is the empty sequence).
LimbBits == 15

\* 2^LimbBits
Base == 32768

\* four limbs
F64Scale == 60

\* the bits of a binary64 significand
F64Precision == 53

RECURSIVE Pow2(_)
Pow2(k) == IF k = 0 THEN 1 ELSE 2 * Pow2(k - 1)

\* the limbs of a natural number
RECURSIVE IntLimbs(_)
IntLimbs(n) == IF n = 0 THEN <<>> ELSE <<n % Base>> \o IntLimbs(n \div Base)

RECURSIVE Trim(_)
Trim(a) ==
    IF a = <<>> THEN a
    ELSE IF a[Len(a)] = 0 THEN Trim(SubSeq(a, 1, Len(a) - 1)) ELSE a

LimbAt(a, i) == IF i <= Len(a) THEN a[i] ELSE 0

\* a * Base^k
ShiftLimbs(a, k) == IF a = <<>> THEN a ELSE [i \in 1..k |-> 0] \o a

RECURSIVE AddLimbs(_, _, _, _)
AddLimbs(a, b, i, carry) ==
    IF i > Len(a) /\ i > Len(b)
    THEN IF carry = 0 THEN <<>> ELSE <<carry>>
    ELSE LET s == LimbAt(a, i) + LimbAt(b, i) + carry
         IN <<s % Base>> \o AddLimbs(a, b, i + 1, s \div Base)

NatAdd(a, b) == AddLimbs(a, b, 1, 0)

\* a - b for a >= b
RECURSIVE SubLimbs(_, _, _, _)
SubLimbs(a, b, i, borrow) ==
    IF i > Len(a) THEN <<>>
    ELSE LET d == LimbAt(a, i) - LimbAt(b, i) - borrow
         IN <<d % Base>> \o SubLimbs(a, b, i + 1, IF d < 0 THEN 1 ELSE 0)

NatSub(a, b) == Trim(SubLimbs(a, b, 1, 0))

\* a * d for one limb d
RECURSIVE MulLimb(_, _, _, _)
MulLimb(a, d, i, carry) ==
    IF i > Len(a)
    THEN IF carry = 0 THEN <<>> ELSE <<carry>>
    ELSE LET p == a[i] * d + carry
         IN <<p % Base>> \o MulLimb(a, d, i + 1, p \div Base)

\* a * b, limb by limb of b
RECURSIVE MulLimbs(_, _, _)
MulLimbs(a, b, i) ==
    IF i > Len(b) THEN <<>>
    ELSE NatAdd(ShiftLimbs(Trim(MulLimb(a, b[i], 1, 0)), i - 1),
                MulLimbs(a, b, i + 1))

NatMul(a, b) == MulLimbs(a, b, 1)

\* a * 2^k
ShiftBits(a, k) ==
    ShiftLimbs(Trim(MulLimb(a, Pow2(k % LimbBits), 1, 0)), k \div LimbBits)

\* a >= b, from the most significant limb down
RECURSIVE GeqLimbs(_, _, _)
GeqLimbs(a, b, i) ==
    IF i = 0 THEN TRUE
    ELSE IF a[i] # b[i] THEN a[i] > b[i]
    ELSE GeqLimbs(a, b, i - 1)

NatGeq(a, b) ==
    IF Len(a) # Len(b) THEN Len(a) > Len(b) ELSE GeqLimbs(a, b, Len(a))

\* the number of significant bits of a
BitLen(a) ==
    IF a = <<>> THEN 0
    ELSE LimbBits * (Len(a) - 1)
         + (CHOOSE k \in 1..LimbBits :
               Pow2(k - 1) <= a[Len(a)] /\ a[Len(a)] < Pow2(k))

\* bit i of a, bit 1 the least significant
Bit(a, i) == (a[(i - 1) \div LimbBits + 1] \div Pow2((i - 1) % LimbBits)) % 2

\* a with its s least significant bits cleared
ClearLow(a, s) ==
    [j \in 1..Len(a) |->
        IF LimbBits * j <= s THEN 0
        ELSE IF LimbBits * (j - 1) >= s THEN a[j]
        ELSE a[j] - (a[j] % Pow2(s - LimbBits * (j - 1)))]

\* rounding to F64Precision significant bits, to nearest with ties to even
\* (the rounding of binary64 arithmetic)
RoundNearestEven(n) ==
    IF BitLen(n) <= F64Precision THEN n
    ELSE LET s == BitLen(n) - F64Precision
             sticky == \E i \in 1..(s - 1) : Bit(n, i) = 1
             up == Bit(n, s) = 1 /\ (sticky \/ Bit(n, s + 1) = 1)
         IN IF up THEN NatAdd(ClearLow(n, s), ShiftBits(<<1>>, s))
            ELSE ClearLow(n, s)

\* the binary64 value (hi * 2^27 + lo) * 2^e
F64Of(hi, lo, e) ==
    ShiftBits(NatAdd(IntLimbs(lo), ShiftBits(IntLimbs(hi), 27)), e + F64Scale)

\* float(n) for a whole number n
F64Int(n) == ShiftBits(IntLimbs(n), F64Scale)

\* x + y, x - y (x >= y) and x * y of Python floats
FAdd(x, y) == RoundNearestEven(NatAdd(x, y))

FSub(x, y) == RoundNearestEven(NatSub(x, y))

FMul(x, y) ==
    LET p == RoundNearestEven(NatMul(x, y))
    IN SubSeq(p, F64Scale \div LimbBits + 1, Len(p))

\* 0.0
F64Zero == <<>>

\* the literals 0.05 (0x1.999999999999ap-5) and 0.10 (0x1.999999999999ap-4)
TaxRate64 == F64Of(53687091, 26843546, -57)

DiscountRate64 == F64Of(53687091, 26843546, -56)

\* subtotal += med["price"] * qty over the lines kept in meds_info, from
\* line i on, subtotal so far given
RECURSIVE Subtotal64From(_, _, _, _)
Subtotal64From(purchases, meds_info, i, subtotal) ==
    IF i > Len(purchases) THEN subtotal
    ELSE IF purchases[i].name \notin DOMAIN meds_info
    THEN Subtotal64From(purchases, meds_info, i + 1, subtotal)
    ELSE LET line_total == FMul(meds_info[purchases[i].name].price,
                                F64Int(purchases[i].qty))
         IN Subtotal64From(purchases, meds_info, i + 1,
                           FAdd(subtotal, line_total))

Subtotal64(purchases, meds_info) ==
    Subtotal64From(purchases, meds_info, 1, F64Zero)

\* tax, discount and total of generate_bill
BillTotal64(subtotal) ==
    LET tax == FMul(subtotal, TaxRate64)
        discount == IF NatGeq(subtotal, F64Int(DiscountThreshold))
                    THEN FMul(subtotal, DiscountRate64) ELSE F64Zero
    IN FSub(FAdd(subtotal, tax), discount)

\* generate_bill after the first loop, on binary64 amounts
BillFinish64(c) ==
    LET subtotal == Subtotal64(frame[c].purchases, frame[c].meds_info)
    IN BillEnd(c, subtotal = F64Zero, F64Zero, BillTotal64(subtotal))

\* --------------------------------------------------- record_prescription
\* SELECT id FROM customers WHERE name = ? AND (phone = ? OR phone IS NULL):
\* the ids of the matching rows (phone = NULL matches no row)
MatchingCustomers(name, phone) ==
    {i \in 1..Len(customers) :
        /\ customers[i].name = name
        /\ \/ (phone # NULL /\ customers[i].phone = phone)
           \/ customers[i].phone = NULL}

\* record_prescription, first statement: _get_or_create_customer
RxCall(c, customer, phone, items) ==
    /\ Idle(c)
    /\ IF MatchingCustomers(customer, phone) # {}
       THEN /\ \E id \in MatchingCustomers(customer, phone) :
                 Enter(c, "rx", [IdleFrame EXCEPT !.customer = customer,
                                                  !.customer_id = id,
                                                  !.purchases = items])
            /\ UNCHANGED customers
       ELSE /\ customers' = Append(customers, [name |-> customer, phone |-> phone])
            /\ Enter(c, "rx", [IdleFrame EXCEPT !.customer = customer,
                                                !.customer_id = Len(customers) + 1,
                                                !.purchases = items])
    /\ UNCHANGED <<medicines, med_seq, suppliers, prescriptions,
                   prescription_items, sales, sale_items, today>>
    /\ UNCHANGED memvars

\* a loop that also takes each prescribed quantity out of the stock
RECURSIVE RxLoopDispensing(_, _, _, _)
RxLoopDispensing(work, items, prescription_id, i) ==
    IF i > Len(items) THEN work
    ELSE LET med == SelectByName(work.medicines, items[i].name)
         IN RxLoopDispensing(
              IF med = NoneMed THEN work
              ELSE UpdateQuantity(
                     [work EXCEPT !.prescription_items =
                        Append(@, [prescription_id |-> prescription_id,
                                   medicine_id |-> med.id,
                                   quantity |-> items[i].qty])],
                     med.id, med.quantity - items[i].qty),
              items, prescription_id, i + 1)

\* the loop of record_prescription from item i on: an INSERT INTO
\* prescription_items for every item whose medicine _get_medicine finds
RECURSIVE RxLoop(_, _, _, _)
RxLoop(work, items, prescription_id, i) ==
    IF i > Len(items) THEN work
    ELSE LET med == SelectByName(work.medicines, items[i].name)
         IN RxLoop(
              IF med = NoneMed THEN work
              ELSE [work EXCEPT !.prescription_items =
                      Append(@, [prescription_id |-> prescription_id,
                                 medicine_id |-> med.id,
                                 quantity |-> items[i].qty])],
              items, prescription_id, i + 1)

\* record_prescription, the write block: INSERT INTO prescriptions, the loop
RxCommit(c) ==
    /\ pc[c] = "rx"
    /\ LET f == frame[c]
           w0 == [DB EXCEPT !.prescriptions =
                    Append(@, [customer_id |-> f.customer_id,
                               customer_name |-> f.customer,
                               created_at |-> IsoFormat(today)])]
       IN SetDB(RxLoop(w0, f.purchases, Len(w0.prescriptions), 1))
    /\ Return(c, "rx", "Ok", 0)
    /\ UNCHANGED <<suppliers, customers, today>>
    /\ UNCHANGED memvars

\* ------------------------------------------------------------- the clock
\* midnight passes: date.today() is the next day
Tick ==
    /\ variant = "sqlite"
    /\ today < MaxDay
    /\ today' = today + 1
    /\ UNCHANGED <<dbvars, pc, frame, ret>>
    /\ UNCHANGED memvars

\* ------------------------------------------------- the in-memory ledger
\* the only process of the in-memory program
MemClient == 1

\* a method of the in-memory program runs from call to return in one step
MemCall(locals, op, outcome, value) ==
    /\ variant = "memory"
    /\ pc[MemClient] = "idle"
    /\ pc' = [pc EXCEPT ![MemClient] = "done"]
    /\ frame' = [frame EXCEPT ![MemClient] = locals]
    /\ ret' = [ret EXCEPT ![MemClient] =
                 [op |-> op, outcome |-> outcome, value |-> value]]
    /\ UNCHANGED <<dbvars, today, variant>>

\* add_medicine(name, price, quantity, supplier)
MemAddMedicine(name, price, q, supplier) ==
    /\ mem_medicines' =
         IF name \in DOMAIN mem_medicines
         THEN [mem_medicines EXCEPT ![name].quantity = @ + q]
         ELSE (name :> [price |-> price, quantity |-> q, supplier |-> supplier])
              @@ mem_medicines
    /\ MemCall([IdleFrame EXCEPT !.name = name, !.price = price,
                                 !.quantity = q, !.supplier_id = supplier],
               "add", "Ok", 0)
    /\ UNCHANGED mem_prescriptions

\* the checks of sell_medicine
MemSellOutcome(meds, name, q) ==
    IF name \notin DOMAIN meds THEN "NotFound"
    ELSE IF meds[name].quantity < q THEN "InsufficientStock"
    ELSE "Ok"

\* sell_medicine(name, quantity)
MemSellMedicine(name, q) ==
    /\ LET o == MemSellOutcome(mem_medicines, name, q)
       IN IF o = "Ok"
          THEN /\ mem_medicines' = [mem_medicines EXCEPT ![name].quantity = @ - q]
               /\ MemCall([IdleFrame EXCEPT !.name = name, !.quantity = q],
                          "sell", "Ok", mem_medicines[name].price * q)
          ELSE /\ UNCHANGED mem_medicines
               /\ MemCall([IdleFrame EXCEPT !.name = name, !.quantity = q],
                          "sell", o, 0)
    /\ UNCHANGED mem_prescriptions

\* the loop of generate_bill from line i on: total += price * qty for every
\* line whose name is in self.medicines
RECURSIVE MemBillTotalFrom(_, _, _)
MemBillTotalFrom(meds, purchases, i) ==
    IF i > Len(purchases) THEN 0
    ELSE (IF purchases[i].name \in DOMAIN meds
          THEN meds[purchases[i].name].price * purchases[i].qty
          ELSE 0) + MemBillTotalFrom(meds, purchases, i + 1)

\* generate_bill(purchases)
MemGenerateBill(purchases) ==
    /\ MemCall([IdleFrame EXCEPT !.purchases = purchases], "bill", "Ok",
               MemBillTotalFrom(mem_medicines, purchases, 1))
    /\ UNCHANGED <<mem_medicines, mem_prescriptions>>

\* record_prescription(customer, items)
MemRecordPrescription(customer, items) ==
    /\ mem_prescriptions' =
         Append(mem_prescriptions, [customer |-> customer, medicines |-> items])
    /\ MemCall([IdleFrame EXCEPT !.customer = customer, !.purchases = items],
               "rx", "Ok", 0)
    /\ UNCHANGED mem_medicines

\* ------------------------------------------------- inputs and first state
\* the expiry texts the callers pass: none, or the first day
Expiries == {NULL, DayStr[1]}

Quantities == 0..MaxQty

Lines == [name : MedNames, qty : Quantities]

\* ordered mappings name -> quantity: the keys of a dict are distinct
\* (none, one line of any quantity, or two lines of quantity 1 or MaxQty)
Purchases ==
    {<<>>} \cup {<<l>> : l \in Lines}
           \cup {p \in Lines \X Lines :
                    /\ p[1].name # p[2].name
                    /\ p[1].qty \in {1, MaxQty}
                    /\ p[2].qty \in {1, MaxQty}}

CustomerNames == {"X"}

Phones == {NULL, "111"}

\* the items of a prescription: one known or unknown medicine, or two
RxItems ==
    {<<[name |-> "A", qty |-> 1]>>,
     <<[name |-> "A", qty |-> 1], [name |-> "B", qty |-> 1]>>}

\* the medicines table a run starts from: what earlier add_medicine calls
\* left in pharmacy.db, at most one row per name, ids in order of insertion
MedRows(name, id, prices, quantities, expiries) ==
    {[id |-> id, name |-> name, price |-> p, quantity |-> q,
      supplier_id |-> NULL, expiry |-> e] :
        p \in prices, q \in quantities, e \in expiries}

InitMedicines ==
    {{}} \cup {{a} : a \in MedRows("A", 1, Prices, Quantities, Expiries)}
         \cup {{a, b} : a \in MedRows("A", 1, Prices, Quantities, Expiries),
                        b \in MedRows("B", 2, {500}, {1, MaxQty}, {NULL})}

\* the dict self.medicines a run of the in-memory program starts from: what
\* earlier add_medicine calls left in it
InitMemMedicines ==
    UNION {[names -> [price : Prices, quantity : Quantities, supplier : {NULL}]] :
             names \in SUBSET MedNames}

EmptyMem == [n \in {} |-> [price |-> 0, quantity |-> 0, supplier |-> NULL]]

Init ==
    /\ variant \in {"sqlite", "memory"}
    /\ IF variant = "sqlite"
       THEN medicines \in InitMedicines /\ mem_medicines = EmptyMem
       ELSE medicines = {} /\ mem_medicines \in InitMemMedicines
    /\ mem_prescriptions = <<>>
    /\ med_seq = Cardinality(medicines)
    /\ suppliers = {}
    /\ customers = <<>>
    /\ prescriptions = <<>>
    /\ prescription_items = <<>>
    /\ sales = <<>>
    /\ sale_items = <<>>
    /\ today = 1
    /\ pc = [c \in Clients |-> "idle"]
    /\ frame = [c \in Clients |-> IdleFrame]
    /\ ret = [c \in Clients |-> NoRet]

Next ==
    \/ \E c \in Clients, n \in MedNames, p \in Prices, e \in Expiries :
          AddCall(c, n, p, 1, NULL, e)
    \/ \E c \in Clients : AddSelect(c)
    \/ \E c \in Clients : AddWrite(c)
    \/ \E c \in Clients, n \in MedNames : DeleteMedicine(c, n)
    \/ \E c \in Clients, n \in MedNames, q \in Quantities : SellRead(c, n, q)
    \/ \E c \in Clients : SellFinish(c)
    \/ \E c \in Clients, p \in Purchases : BillCall(c, p)
    \/ \E c \in Clients : BillRead(c)
    \/ \E c \in Clients : BillFinish(c)
    \/ \E c \in Clients, n \in CustomerNames, ph \in Phones, it \in RxItems :
          RxCall(c, n, ph, it)
    \/ \E c \in Clients : RxCommit(c)
    \/ Tick
    \/ \E n \in MedNames, p \in Prices : MemAddMedicine(n, p, 1, NULL)
    \/ \E n \in MedNames, q \in Quantities : MemSellMedicine(n, q)
    \/ \E p \in Purchases : MemGenerateBill(p)
    \/ \E n \in CustomerNames, it \in RxItems : MemRecordPrescription(n, it)

Spec == Init /\ [][Next]_vars

\* ---------------------------------------------- bills over a price list
PricingNames == <<"A", "B", "C">>

\* a price list: the price typed (in cents) and float() of it
\*   0.28 = 0x1.1eb851eb851ecp-2     2.31 = 0x1.27ae147ae147bp+1
\*   997.41 = 0x1.f2b47ae147ae1p+9   100.0 = 0x1.9p+6   500.0 = 0x1.f4p+8
PriceList ==
    {[cents |-> 0,     f64 |-> F64Zero],
     [cents |-> 28,    f64 |-> F64Of(37580963, 112742892, -54)],
     [cents |-> 231,   f64 |-> F64Of(38755368, 128849019, -51)],
     [cents |-> 10000, f64 |-> F64Of(52428800, 0, -46)],
     [cents |-> 50000, f64 |-> F64Of(65536000, 0, -44)],
     [cents |-> 99741, f64 |-> F64Of(65366261, 102005473, -43)]}

\* the orders in which a dict of three lines can have been filled
Orders == {o \in [1..3 -> 1..3] : \A i, j \in 1..3 : i # j => o[i] # o[j]}

\* the three medicines are stocked, at any prices of the list, and each
\* client's generate_bill has resolved the same three lines, entered in its
\* own order, each for the same quantity
InitPricing ==
    /\ \E price \in [1..3 -> {e.f64 : e \in PriceList}] :
          medicines = {[id |-> i, name |-> PricingNames[i], price |-> price[i],
                        quantity |-> MaxQty, supplier_id |-> NULL,
                        expiry |-> NULL] : i \in 1..3}
    /\ med_seq = 3
    /\ variant = "sqlite"
    /\ mem_medicines = EmptyMem
    /\ mem_prescriptions = <<>>
    /\ suppliers = {}
    /\ customers = <<>>
    /\ prescriptions = <<>>
    /\ prescription_items = <<>>
    /\ sales = <<>>
    /\ sale_items = <<>>
    /\ today = 1
    /\ pc = [c \in Clients |-> "bill"]
    /\ \E q \in {1, MaxQty}, o \in Orders :
          frame = [c \in Clients |->
                     [IdleFrame EXCEPT
                        !.purchases =
                           [i \in 1..3 |->
                              [name |-> PricingNames[IF c = 1 THEN i ELSE o[i]],
                               qty |-> q]],
                        !.idx = 4,
                        !.meds_info =
                           [n \in {PricingNames[i] : i \in 1..3} |->
                              SelectByName(medicines, n)]]]
    /\ ret = [c \in Clients |-> NoRet]

NextPricing == \E c \in Clients : BillFinish64(c)

SpecPricing == InitPricing /\ [][NextPricing]_vars

\* ------------------------------------- restocking through both programs
SupplierNames == {"S"}

\* the supplier names a caller gives: none, or a name
SupplierArgs == {NULL} \cup SupplierNames

\* pharmacy.db holds no medicine or one, and no supplier or one; the command
\* line program and the HTTP service both open it
InitRestock ==
    /\ variant = "sqlite"
    /\ medicines \in {{}} \cup {{a} : a \in MedRows("A", 1, {500}, {1}, {NULL})}
    /\ med_seq = Cardinality(medicines)
    /\ suppliers \in SUBSET SupplierNames
    /\ mem_medicines = EmptyMem
    /\ mem_prescriptions = <<>>
    /\ customers = <<>>
    /\ prescriptions = <<>>
    /\ prescription_items = <<>>
    /\ sales = <<>>
    /\ sale_items = <<>>
    /\ today = 1
    /\ pc = [c \in Clients |-> "idle"]
    /\ frame = [c \in Clients |-> IdleFrame]
    /\ ret = [c \in Clients |-> NoRet]

NextRestock ==
    \/ \E c \in Clients, n \in MedNames, p \in Prices, s \in SupplierArgs :
          AddCall(c, n, p, 1, s, NULL)
    \/ \E c \in Clients : AddSelect(c)
    \/ \E c \in Clients : AddWrite(c)
    \/ \E c \in Clients, n \in MedNames, p \in Prices, s \in SupplierArgs :
          WebCreateCall(c, n, p, 1, s, NULL)
    \/ \E c \in Clients : WebCreateSupplier(c)
    \/ \E c \in Clients : WebInsert(c)

SpecRestock == InitRestock /\ [][NextRestock]_vars

\* ------------------------------------------- writes that the storage fails
\* the write block of sell_medicine before its statement k (1: UPDATE
\* medicines, 2: INSERT sales, 3: INSERT sale_items)
SellTxUpTo(db, med, q, day, k) ==
    LET w1 == UpdateQuantity(db, med.id, NewQty(db, med, q))
        w2 == InsertSale(w1, IsoFormat(day), med.price * q)
    IN IF k = 1 THEN db ELSE IF k = 2 THEN w1 ELSE w2

\* sell_medicine passes its checks and statement k of its write block raises
\* sqlite3.OperationalError (disk full, I/O error): the with block rolls
\* back and the exception leaves sell_medicine
SellWriteFails(c, k) ==
    /\ pc[c] = "sell"
    /\ LET f == frame[c]
       IN /\ SellOutcome(f.med, f.quantity, today) = "Ok"
          /\ SetDB(WithConn(DB, SellTxUpTo(DB, f.med, f.quantity, today, k),
                            FALSE))
    /\ Return(c, "sell", "OperationalError", 0)
    /\ UNCHANGED <<suppliers, customers, today>>
    /\ UNCHANGED memvars

\* record_prescription, first statement: _get_or_create_customer finds no
\* row and its INSERT INTO customers raises sqlite3.OperationalError
RxCustomerFails(c, customer, phone, items) ==
    /\ Idle(c)
    /\ MatchingCustomers(customer, phone) = {}
    /\ pc' = [pc EXCEPT ![c] = "done"]
    /\ frame' = [frame EXCEPT ![c] = [IdleFrame EXCEPT !.customer = customer,
                                                       !.purchases = items]]
    /\ ret' = [ret EXCEPT ![c] =
                 [op |-> "rx", outcome |-> "OperationalError", value |-> 0]]
    /\ UNCHANGED <<dbvars, today>>
    /\ UNCHANGED memvars

\* the write block of record_prescription before its statement k (1: INSERT
\* INTO prescriptions, k > 1: the INSERT INTO prescription_items of item k - 1)
RxTxUpTo(db, f, day, k) ==
    LET w0 == [db EXCEPT !.prescriptions =
                 Append(@, [customer_id |-> f.customer_id,
                            customer_name |-> f.customer,
                            created_at |-> IsoFormat(day)])]
    IN IF k = 1 THEN db
       ELSE RxLoop(w0, SubSeq(f.purchases, 1, k - 2), Len(w0.prescriptions), 1)

\* record_prescription, the write block: its statement k raises
\* sqlite3.OperationalError; the with block rolls back and the exception
\* leaves record_prescription; the customer lookup has returned before
RxWriteFails(c, k) ==
    /\ pc[c] = "rx"
    /\ k \in 1..(Len(frame[c].purchases) + 1)
    /\ k > 1 => GetMedicine(frame[c].purchases[k - 1].name) # NoneMed
    /\ SetDB(WithConn(DB, RxTxUpTo(DB, frame[c], today, k), FALSE))
    /\ Return(c, "rx", "OperationalError", 0)
    /\ UNCHANGED <<suppliers, customers, today>>
    /\ UNCHANGED memvars

\* pharmacy.db holds one medicine in stock, without expiry, and nothing else
StorageMedicines ==
    {[id |-> 1, name |-> "A", price |-> 500, quantity |-> MaxQty,
      supplier_id |-> NULL, expiry |-> NULL]}

InitStorage ==
    /\ variant = "sqlite"
    /\ medicines = StorageMedicines
    /\ med_seq = Cardinality(medicines)
    /\ suppliers = {}
    /\ mem_medicines = EmptyMem
    /\ mem_prescriptions = <<>>
    /\ customers = <<>>
    /\ prescriptions = <<>>
    /\ prescription_items = <<>>
    /\ sales = <<>>
    /\ sale_items = <<>>
    /\ today = 1
    /\ pc = [c \in Clients |-> "idle"]
    /\ frame = [c \in Clients |-> IdleFrame]
    /\ ret = [c \in Clients |-> NoRet]

NextStorage ==
    \/ \E c \in Clients, n \in MedNames, q \in Quantities : SellRead(c, n, q)
    \/ \E c \in Clients : SellFinish(c)
    \/ \E c \in Clients, k \in 1..3 : SellWriteFails(c, k)
    \/ \E c \in Clients, n \in CustomerNames, ph \in Phones, it \in RxItems :
          RxCall(c, n, ph, it)
    \/ \E c \in Clients : RxCommit(c)
    \/ \E c \in Clients, n \in CustomerNames, ph \in Phones, it \in RxItems :
          RxCustomerFails(c, n, ph, it)
    \/ \E c \in Clients, k \in 1..3 : RxWriteFails(c, k)

SpecStorage == InitStorage /\ [][NextStorage]_vars

\* ------------------------------------------------------ show_today_sales
\* a query that selects every row of sales, whatever its date
AmountsOfAllDays(tbl, today_str) ==
    [i \in 1..Len(tbl) |-> tbl[i].total_amount]

\* SELECT total_amount FROM sales WHERE sale_date = ? ; fetchall()
AmountsOfDay(tbl, today_str) ==
    LET rows == SelectSeq(tbl, LAMBDA r : r.sale_date = today_str)
    IN [i \in 1..Len(rows) |-> rows[i].total_amount]

\* sum(amounts)
RECURSIVE SumOf(_)
SumOf(amounts) ==
    IF amounts = <<>> THEN 0 ELSE Head(amounts) + SumOf(Tail(amounts))

\* show_today_sales: "No sales recorded for today." when the query has no
\* row, else the total and the number of transactions
ShowTodaySales(c) ==
    /\ Idle(c)
    /\ LET amounts == AmountsOfDay(sales, IsoFormat(today))
       IN ret' = [ret EXCEPT ![c] =
                    [op |-> "today_sales",
                     outcome |-> IF amounts = <<>> THEN "NoSales" ELSE "Ok",
                     value |-> [total |-> SumOf(amounts),
                                count |-> Len(amounts)]]]
    /\ pc' = [pc EXCEPT ![c] = "done"]
    /\ UNCHANGED <<dbvars, today, frame>>
    /\ UNCHANGED memvars

\* the sales an earlier run left: each of one unit of medicine 1 at 500, by
\* sell_medicine (500) or by generate_bill (525), on the first or second day
PastSale == [sale_date : {DayStr[1], DayStr[2]}, total_amount : {500, 525}]

\* at most two of them, in the order of their dates
PastSales ==
    {<<>>} \cup {<<a>> : a \in PastSale}
           \cup {h \in PastSale \X PastSale :
                    Strptime(h[1].sale_date) <= Strptime(h[2].sale_date)}

\* pharmacy.db holds one medicine and the sales of earlier calls, none dated
\* after today
InitSalesReport ==
    /\ variant = "sqlite"
    /\ medicines = StorageMedicines
    /\ med_seq = Cardinality(medicines)
    /\ suppliers = {}
    /\ mem_medicines = EmptyMem
    /\ mem_prescriptions = <<>>
    /\ customers = <<>>
    /\ prescriptions = <<>>
    /\ prescription_items = <<>>
    /\ today \in 1..MaxDay
    /\ sales \in {h \in PastSales :
                    \A i \in 1..Len(h) : Strptime(h[i].sale_date) <= today}
    /\ sale_items = [i \in 1..Len(sales) |->
                       [sale_id |-> i, medicine_id |-> 1, quantity |-> 1,
                        unit_price |-> 500]]
    /\ pc = [c \in Clients |-> "idle"]
    /\ frame = [c \in Clients |-> IdleFrame]
    /\ ret = [c \in Clients |-> NoRet]

NextSalesReport ==
    \/ \E c \in Clients, n \in MedNames, q \in Quantities : SellRead(c, n, q)
    \/ \E c \in Clients : SellFinish(c)
    \/ \E c \in Clients, p \in Purchases : BillCall(c, p)
    \/ \E c \in Clients : BillRead(c)
    \/ \E c \in Clients : BillFinish(c)
    \/ \E c \in Clients : ShowTodaySales(c)
    \/ Tick

SpecSalesReport == InitSalesReport /\ [][NextSalesReport]_vars

\* ------------------------------------- display_stock, show_critical_stock
LowStockThreshold == 5

\* a stored expiry text that strptime(.., "%Y-%m-%d") does not parse
BadExpiry == "31/12/2024"

\* the rank of a name in the order of ORDER BY name
NameRank(name) == CHOOSE i \in 1..2 : <<"A", "B">>[i] = name

\* the orders in which ORDER BY name can hand out the rows
OrderedByName(meds) ==
    {rows \in [1..Cardinality(meds) -> meds] :
        /\ \A i, j \in DOMAIN rows : i # j => rows[i] # rows[j]
        /\ \A i, j \in DOMAIN rows :
              i < j => NameRank(rows[i].name) <= NameRank(rows[j].name)}

\* the expiry part of status_parts in display_stock
ExpiryStatus(expiry_str, day) ==
    IF expiry_str = NULL THEN <<>>
    ELSE IF Strptime(expiry_str) = ValueError THEN <<"INVALID_EXPIRY">>
    ELSE IF Strptime(expiry_str) < day THEN <<"EXPIRED">>
    ELSE <<>>

\* status parts where the low stock mark is only for rows without another mark
DisplayStatusOneMark(row, day) ==
    IF ExpiryStatus(row.expiry, day) # <<>> THEN ExpiryStatus(row.expiry, day)
    ELSE IF row.quantity < LowStockThreshold THEN <<"LOW_STOCK">> ELSE <<>>

\* status_parts of a row in display_stock: the expiry part, then LOW_STOCK
DisplayStatus(row, day) ==
    ExpiryStatus(row.expiry, day)
      \o (IF row.quantity < LowStockThreshold THEN <<"LOW_STOCK">> ELSE <<>>)

\* display_stock: "No medicines in stock." or a line per row, in name order
DisplayStock(c) ==
    /\ Idle(c)
    /\ \E rows \in OrderedByName(medicines) :
          ret' = [ret EXCEPT ![c] =
                    [op |-> "display",
                     outcome |-> IF rows = <<>> THEN "Empty" ELSE "Ok",
                     value |-> [i \in DOMAIN rows |->
                                  [name |-> rows[i].name,
                                   status |-> DisplayStatus(rows[i], today)]]]]
    /\ pc' = [pc EXCEPT ![c] = "done"]
    /\ UNCHANGED <<dbvars, today, frame>>
    /\ UNCHANGED memvars

\* show_critical_stock: the names with qty < 5 and the names whose expiry
\* parses and is before today, each in name order; an expiry that does not
\* parse is passed over
ShowCriticalStock(c) ==
    /\ Idle(c)
    /\ \E rows \in OrderedByName(medicines) :
          LET low == SelectSeq(rows, LAMBDA r : r.quantity < LowStockThreshold)
              exp == SelectSeq(rows, LAMBDA r :
                        /\ r.expiry # NULL
                        /\ Strptime(r.expiry) # ValueError
                        /\ Strptime(r.expiry) < today)
          IN ret' = [ret EXCEPT ![c] =
                       [op |-> "critical", outcome |-> "Ok",
                        value |-> [low_stock |-> [i \in DOMAIN low |-> low[i].name],
                                   expired |-> [i \in DOMAIN exp |-> exp[i].name]]]]
    /\ pc' = [pc EXCEPT ![c] = "done"]
    /\ UNCHANGED <<dbvars, today, frame>>
    /\ UNCHANGED memvars

\* the quantities around the low stock threshold, and none
ReportQuantities == {0, LowStockThreshold - 1, LowStockThreshold}

\* the expiry texts a stored row can have: none, a date, or other text
ReportExpiries == {NULL, DayStr[1], BadExpiry}

\* pharmacy.db holds no medicine, A, or A and B, with any of those
\* quantities and expiry texts
InitStockReport ==
    /\ variant = "sqlite"
    /\ medicines \in
         {{}} \cup {{a} : a \in MedRows("A", 1, {500}, ReportQuantities,
                                        ReportExpiries)}
              \cup {{a, b} : a \in MedRows("A", 1, {500}, ReportQuantities,
                                           ReportExpiries),
                             b \in MedRows("B", 2, {500}, ReportQuantities,
                                           ReportExpiries)}
    /\ med_seq = Cardinality(medicines)
    /\ suppliers = {}
    /\ mem_medicines = EmptyMem
    /\ mem_prescriptions = <<>>
    /\ customers = <<>>
    /\ prescriptions = <<>>
    /\ prescription_items = <<>>
    /\ sales = <<>>
    /\ sale_items = <<>>
    /\ today \in 1..MaxDay
    /\ pc = [c \in Clients |-> "idle"]
    /\ frame = [c \in Clients |-> IdleFrame]
    /\ ret = [c \in Clients |-> NoRet]

NextStockReport ==
    \/ \E c \in Clients : DisplayStock(c)
    \/ \E c \in Clients : ShowCriticalStock(c)
    \/ \E c \in Clients, n \in MedNames, q \in Quantities : SellRead(c, n, q)
    \/ \E c \in Clients : SellFinish(c)
    \/ Tick

SpecStockReport == InitStockReport /\ [][NextStockReport]_vars

\* -------------------------------------------------------- search_medicine
\* texts are sequences of characters; the characters of names and queries
SearchChars == {"A", "a", "b", "B", "_", "%"}

\* the code point of a character
CharCode(ch) ==
    CASE ch = "%" -> 37 [] ch = "A" -> 65 [] ch = "B" -> 66
      [] ch = "_" -> 95 [] ch = "a" -> 97 [] ch = "b" -> 98

\* LIKE compares ASCII letters without regard to case
FoldCase(ch) == IF ch = "A" THEN "a" ELSE IF ch = "B" THEN "b" ELSE ch

\* text LIKE pattern in SQLite: % matches any run of characters, _ any one
\* character, any other character itself up to the case of ASCII letters
RECURSIVE Like(_, _)
Like(pattern, text) ==
    IF pattern = <<>> THEN text = <<>>
    ELSE IF Head(pattern) = "%"
    THEN Like(Tail(pattern), text) \/ (text # <<>> /\ Like(pattern, Tail(text)))
    ELSE /\ text # <<>>
         /\ Head(pattern) = "_" \/ FoldCase(Head(pattern)) = FoldCase(Head(text))
         /\ Like(Tail(pattern), Tail(text))

\* x sorts before y, or is y, in the BINARY collation of ORDER BY
RECURSIVE BinaryLeq(_, _)
BinaryLeq(x, y) ==
    IF x = <<>> THEN TRUE
    ELSE IF y = <<>> THEN FALSE
    ELSE IF Head(x) = Head(y) THEN BinaryLeq(Tail(x), Tail(y))
    ELSE CharCode(Head(x)) < CharCode(Head(y))

\* the orders in which ORDER BY m.name can hand out the rows
OrderedByBinary(rows) ==
    {out \in [1..Cardinality(rows) -> rows] :
        /\ \A i, j \in DOMAIN out : i # j => out[i] # out[j]
        /\ \A i, j \in DOMAIN out : i < j => BinaryLeq(out[i].name, out[j].name)}

\* search_medicine(query): the rows WHERE m.name LIKE '%query%', by name
SearchMedicine(c, query) ==
    /\ Idle(c)
    /\ LET like == <<"%">> \o query \o <<"%">>
       IN \E rows \in OrderedByBinary({r \in medicines : Like(like, r.name)}) :
             ret' = [ret EXCEPT ![c] =
                       [op |-> "search",
                        outcome |-> IF rows = <<>> THEN "Empty" ELSE "Ok",
                        value |-> [i \in DOMAIN rows |-> rows[i].name]]]
    /\ frame' = [frame EXCEPT ![c] = [IdleFrame EXCEPT !.name = query]]
    /\ pc' = [pc EXCEPT ![c] = "done"]
    /\ UNCHANGED <<dbvars, today>>
    /\ UNCHANGED memvars

\* the queries: every text of at most two characters
Queries ==
    {<<>>} \cup {<<a>> : a \in SearchChars} \cup (SearchChars \X SearchChars)

\* the names of the medicines searched
SearchNames == <<(<<"A", "b">>), (<<"B">>), (<<"a", "_">>)>>

\* pharmacy.db holds any of those medicines, added in that order
InitSearch ==
    /\ variant = "sqlite"
    /\ \E present \in SUBSET (1..3) :
          medicines = {[id |-> Cardinality({j \in present : j <= i}),
                        name |-> SearchNames[i], price |-> 500,
                        quantity |-> 1, supplier_id |-> NULL,
                        expiry |-> NULL] : i \in present}
    /\ med_seq = Cardinality(medicines)
    /\ suppliers = {}
    /\ mem_medicines = EmptyMem
    /\ mem_prescriptions = <<>>
    /\ customers = <<>>
    /\ prescriptions = <<>>
    /\ prescription_items = <<>>
    /\ sales = <<>>
    /\ sale_items = <<>>
    /\ today = 1
    /\ pc = [c \in Clients |-> "idle"]
    /\ frame = [c \in Clients |-> IdleFrame]
    /\ ret = [c \in Clients |-> NoRet]

NextSearch == \E c \in Clients, q \in Queries : SearchMedicine(c, q)

SpecSearch == InitSearch /\ [][NextSearch]_vars

\* ------------------------------------------- restocking against selling
\* the one medicine of StorageMedicines is restocked, sold and billed
NextConserve ==
    \/ \E c \in Clients, n \in MedNames, p \in Prices :
          AddCall(c, n, p, 1, NULL, NULL)
    \/ \E c \in Clients : AddSelect(c)
    \/ \E c \in Clients : AddWrite(c)
    \/ \E c \in Clients, n \in MedNames, q \in Quantities : SellRead(c, n, q)
    \/ \E c \in Clients : SellFinish(c)
    \/ \E c \in Clients, p \in Purchases : BillCall(c, p)
    \/ \E c \in Clients : BillRead(c)
    \/ \E c \in Clients : BillFinish(c)

SpecConserve == InitStorage /\ [][NextConserve]_vars

\* ---------------------------------------- every operation that writes
\* both programs on one pharmacy.db: restocking with supplier names, selling,
\* billing, prescribing and deleting
NextIntegrity ==
    \/ \E c \in Clients, n \in MedNames, s \in SupplierArgs :
          AddCall(c, n, 500, 1, s, NULL)
    \/ \E c \in Clients : AddSelect(c)
    \/ \E c \in Clients : AddWrite(c)
    \/ \E c \in Clients, n \in MedNames, s \in SupplierArgs :
          WebCreateCall(c, n, 500, 1, s, NULL)
    \/ \E c \in Clients : WebCreateSupplier(c)
    \/ \E c \in Clients : WebInsert(c)
    \/ \E c \in Clients, n \in MedNames : DeleteMedicine(c, n)
    \/ \E c \in Clients, n \in MedNames, q \in Quantities : SellRead(c, n, q)
    \/ \E c \in Clients : SellFinish(c)
    \/ \E c \in Clients, p \in Purchases : BillCall(c, p)
    \/ \E c \in Clients : BillRead(c)
    \/ \E c \in Clients : BillFinish(c)
    \/ \E c \in Clients, n \in CustomerNames, ph \in Phones, it \in RxItems :
          RxCall(c, n, ph, it)
    \/ \E c \in Clients : RxCommit(c)

SpecIntegrity == InitRestock /\ [][NextIntegrity]_vars

\* ================================================================ claims
\* the step in which client c's sell_medicine runs its checks and returns
SellStep(c) == pc[c] = "sell" /\ pc'[c] = "done"

\* the step in which client c's generate_bill computes the bill and returns
BillStep(c) == pc[c] = "bill" /\ pc'[c] = "done"

\* no table of the ledger changes in the step
LedgerUnchanged ==
    /\ medicines' = medicines
    /\ sales' = sales
    /\ sale_items' = sale_items
    /\ prescriptions' = prescriptions
    /\ prescription_items' = prescription_items
    /\ customers' = customers

\* client c called sell_medicine and it returned with that outcome
Sold(c, outcome) ==
    pc[c] = "done" /\ ret[c].op = "sell" /\ ret[c].outcome = outcome

\* the text is a date and that date is before the day
ExpiredOn(expiry_str, day) ==
    \E d \in DOMAIN DayStr : DayStr[d] = expiry_str /\ d < day

\* the rows of medicines with that name
Named(name) == {r \in medicines : r.name = name}

\* C1: in every reachable state every medicine's quantity is >= 0, whatever
\* the interleaving of add_medicine, sell_medicine, generate_bill,
\* delete_medicine and record_prescription
C1_QuantityNonNegative == \A r \in medicines : r.quantity >= 0

\* two sells read the same stock, each fits, together they exceed it, both
\* were committed
C1_Witness ==
    /\ Sold(1, "Ok") /\ Sold(2, "Ok")
    /\ frame[1].med = frame[2].med
    /\ frame[1].quantity + frame[2].quantity > frame[1].med.quantity
    /\ \E r \in medicines : r.id = frame[1].med.id /\ r.quantity >= 0

\* two sell_medicine calls for one medicine that read the same stock, each
\* asking for no more than it and together for more than it, on a medicine
\* that is not expired
ConcurrentSells ==
    /\ pc[1] = "done" /\ ret[1].op = "sell"
    /\ pc[2] = "done" /\ ret[2].op = "sell"
    /\ frame[1].med # NoneMed
    /\ frame[1].med = frame[2].med
    /\ frame[1].quantity <= frame[1].med.quantity
    /\ frame[2].quantity <= frame[2].med.quantity
    /\ frame[1].quantity + frame[2].quantity > frame[1].med.quantity
    /\ ~ExpiredOn(frame[1].med.expiry, today)

\* C2: of two concurrent sells of one medicine that fit one by one but not
\* together, exactly one succeeds and the other fails with InsufficientStock
C2_ExactlyOneSucceeds ==
    ConcurrentSells =>
        \E c \in Clients, d \in Clients :
            /\ c # d
            /\ ret[c].outcome = "Ok"
            /\ ret[d].outcome = "InsufficientStock"

\* the step in which the in-memory program runs that method
MemStep(op) ==
    /\ variant = "memory"
    /\ pc[MemClient] = "idle" /\ pc'[MemClient] = "done"
    /\ ret'[MemClient].op = op

\* C3: sell_medicine of more than the quantity it finds for an existing
\* medicine fails with InsufficientStock and changes nothing, in the SQLite
\* ledger (no table changes) and in the in-memory ledger (self.medicines
\* does not change)
C3_OversellChangesNothing ==
    [][/\ \A c \in Clients :
            (/\ SellStep(c)
             /\ frame[c].med # NoneMed
             /\ frame[c].quantity > frame[c].med.quantity)
            => /\ ret'[c].outcome = "InsufficientStock"
               /\ ret'[c].value = 0
               /\ LedgerUnchanged
       /\ LET name == frame'[MemClient].name
          IN (/\ MemStep("sell")
              /\ name \in DOMAIN mem_medicines
              /\ frame'[MemClient].quantity > mem_medicines[name].quantity)
             => /\ ret'[MemClient].outcome = "InsufficientStock"
                /\ ret'[MemClient].value = 0
                /\ mem_medicines' = mem_medicines]_vars

\* a sell of more than the stock of an existing medicine has returned
C3_Witness ==
    \E c \in Clients :
        /\ Sold(c, "InsufficientStock")
        /\ Named(frame[c].name) # {}
        /\ \A r \in Named(frame[c].name) : r.quantity < frame[c].quantity

\* C4 as claimed: sell_medicine on a medicine whose expiry is before today
\* fails with Expired for every requested quantity and changes no table
C4_ExpiredAlwaysExpired ==
    [][\A c \in Clients :
          (/\ SellStep(c)
           /\ frame[c].med # NoneMed
           /\ ExpiredOn(frame[c].med.expiry, today))
          => /\ ret'[c].outcome = "Expired"
             /\ LedgerUnchanged]_vars

\* C4 amended: sell_medicine on a medicine whose expiry is before today
\* fails and changes no table; the outcome is Expired when the requested
\* quantity is at most the quantity found and InsufficientStock when it is more
C4_ExpiredFailsUnchanged ==
    [][\A c \in Clients :
          (/\ SellStep(c)
           /\ frame[c].med # NoneMed
           /\ ExpiredOn(frame[c].med.expiry, today))
          => /\ ret'[c].outcome =
                    IF frame[c].quantity > frame[c].med.quantity
                    THEN "InsufficientStock" ELSE "Expired"
             /\ ret'[c].value = 0
             /\ LedgerUnchanged]_vars

\* a sell of a quantity in stock of an expired medicine has returned Expired
C4_Witness ==
    \E c \in Clients :
        /\ Sold(c, "Expired")
        /\ frame[c].quantity > 0
        /\ \E r \in Named(frame[c].name) :
              /\ r.quantity >= frame[c].quantity
              /\ ExpiredOn(r.expiry, today)

\* the medicine client c read is the first row of that name as it is now
ReadIsCurrent(c) == frame[c].med = SelectByName(medicines, frame[c].name)

\* C5: sell_medicine(name, q) on an existing medicine with q <= its quantity
\* and an expiry that is absent or not before today (no other client having
\* changed the medicine since the call read it) succeeds: the quantity
\* decreases by q, one Sale dated today of amount price * q and its one
\* sale-item (medicine, q, price) are appended, and price * q is returned
C5_SellSucceeds ==
    [][\A c \in Clients :
          (/\ SellStep(c)
           /\ frame[c].med # NoneMed
           /\ ReadIsCurrent(c)
           /\ frame[c].quantity <= frame[c].med.quantity
           /\ \/ frame[c].med.expiry = NULL
              \/ \E d \in DOMAIN DayStr :
                    DayStr[d] = frame[c].med.expiry /\ d >= today)
          => LET m == frame[c].med
                 q == frame[c].quantity
                 row == CHOOSE r \in medicines : r.id = m.id
             IN /\ ret'[c] = [op |-> "sell", outcome |-> "Ok",
                              value |-> row.price * q]
                /\ medicines' = (medicines \ {row}) \cup
                                  {[row EXCEPT !.quantity = row.quantity - q]}
                /\ sales' = sales \o <<[sale_date |-> DayStr[today],
                                        total_amount |-> row.price * q]>>
                /\ sale_items' = sale_items \o
                                   <<[sale_id |-> Len(sales) + 1,
                                      medicine_id |-> row.id,
                                      quantity |-> q,
                                      unit_price |-> row.price]>>]_vars

\* a medicine whose expiry is today was sold today
C5_Witness ==
    \E c \in Clients :
        /\ Sold(c, "Ok")
        /\ frame[c].quantity > 0
        /\ frame[c].med.price > 0
        /\ today = 1
        /\ frame[c].med.expiry = DayStr[1]
        /\ Len(sales) = 1
        /\ sales[1].sale_date = DayStr[1]

\* the names of the lines client c's bill kept in meds_info
ResolvedNames(c) == DOMAIN frame[c].meds_info

\* the requested quantity of the line of that name
QtyOf(purchases, name) ==
    purchases[CHOOSE i \in 1..Len(purchases) : purchases[i].name = name].qty

\* the sum of unit price x quantity over a set of resolved lines
RECURSIVE SumOfLines(_, _, _)
SumOfLines(names, purchases, info) ==
    IF names = {} THEN 0
    ELSE LET n == CHOOSE x \in names : TRUE
         IN info[n].price * QtyOf(purchases, n)
            + SumOfLines(names \ {n}, purchases, info)

\* the subtotal of client c's bill: the sum over its resolved lines
BillSubtotal(c) ==
    SumOfLines(ResolvedNames(c), frame[c].purchases, frame[c].meds_info)

\* a medicine that client c's bill resolved has been deleted since
ResolvedGone(c) ==
    \E n \in ResolvedNames(c) :
        frame[c].meds_info[n].id \notin MedIds(medicines)

\* every medicine client c's bill resolved is now as the bill read it
BillReadsCurrent(c) ==
    \A n \in ResolvedNames(c) :
        frame[c].meds_info[n] = SelectByName(medicines, n)

\* client c called generate_bill and it returned with that outcome
Billed(c, outcome) ==
    pc[c] = "done" /\ ret[c].op = "bill" /\ ret[c].outcome = outcome

\* C6: the write block of generate_bill is all-or-nothing: when it does not
\* complete, as when a resolved medicine was deleted after the first loop
\* read it, no quantity has changed and no Sale or sale-item was added
C6_CommitAllOrNothing ==
    [][\A c \in Clients :
          BillStep(c) =>
            /\ ret'[c].outcome # "Ok" => LedgerUnchanged
            /\ ResolvedGone(c) => ret'[c].outcome # "Ok"]_vars

\* a bill of two resolved lines failed at the second line, after the
\* sale-item and the stock update of the first line had been executed
C6_Witness ==
    \E c \in Clients :
        /\ Billed(c, "IntegrityError")
        /\ Len(frame[c].purchases) = 2
        /\ Cardinality(ResolvedNames(c)) = 2
        /\ frame[c].meds_info[frame[c].purchases[1].name].id \in MedIds(medicines)
        /\ frame[c].meds_info[frame[c].purchases[2].name].id \notin MedIds(medicines)
        /\ sales = <<>> /\ sale_items = <<>>

\* C7: a generate_bill with a non-zero subtotal (no other client having
\* changed a resolved medicine since the bill read it) decreases each resolved
\* medicine's quantity by its requested quantity, leaves every other medicine
\* unchanged, and appends one Sale, of the returned total, whose sale-items are
\* the resolved lines (medicine, requested quantity, unit price) in line order
C7_BillCommits ==
    [][\A c \in Clients :
          (BillStep(c) /\ BillSubtotal(c) # 0 /\ BillReadsCurrent(c))
          => LET f == frame[c]
                 IsKept(l) == l.name \in ResolvedNames(c)
                 kept == SelectSeq(f.purchases, IsKept)
                 rowOf(n) == CHOOSE r \in medicines : r.id = f.meds_info[n].id
             IN /\ ret'[c].outcome = "Ok"
                /\ medicines' =
                     {IF r.name \in ResolvedNames(c)
                      THEN [r EXCEPT !.quantity = r.quantity - QtyOf(f.purchases, r.name)]
                      ELSE r : r \in medicines}
                /\ sales' = sales \o <<[sale_date |-> DayStr[today],
                                        total_amount |-> ret'[c].value]>>
                /\ sale_items' = sale_items \o
                     [i \in 1..Len(kept) |->
                        [sale_id |-> Len(sales) + 1,
                         medicine_id |-> rowOf(kept[i].name).id,
                         quantity |-> kept[i].qty,
                         unit_price |-> rowOf(kept[i].name).price]]]_vars

\* a bill of two resolved lines, one of them for more than one unit, was
\* recorded
C7_Witness ==
    \E c \in Clients :
        /\ Billed(c, "Ok")
        /\ Cardinality(ResolvedNames(c)) = 2
        /\ \E n \in ResolvedNames(c) : QtyOf(frame[c].purchases, n) = 2
        /\ Len(sales) = 1 /\ Len(sale_items) = 2
        /\ sales[1].total_amount = ret[c].value
        /\ \A d \in Clients : pc[d] = "done" => ret[d].op = "bill"

\* generate_bill of the SQLite ledger resolves a line exactly when its
\* medicine exists with a quantity >= the requested one; a line it skips does
\* not fail the bill, adds nothing to the subtotal and leaves its medicine's
\* row unchanged, and the resolved lines are billed
SqliteResolvesIffInStock(c) ==
    /\ (pc[c] = "bill" /\ frame'[c].idx = frame[c].idx + 1)
       => LET line == frame[c].purchases[frame[c].idx]
          IN /\ line.name \in DOMAIN frame'[c].meds_info
                  <=> \E r \in Named(line.name) : line.qty <= r.quantity
             /\ \A n \in ResolvedNames(c) :
                  /\ n \in DOMAIN frame'[c].meds_info
                  /\ frame'[c].meds_info[n] = frame[c].meds_info[n]
    /\ BillStep(c)
       => LET S == BillSubtotal(c)
              skipped == {frame[c].purchases[i].name :
                            i \in 1..Len(frame[c].purchases)}
                         \ ResolvedNames(c)
          IN /\ \A r \in medicines : r.name \in skipped => r \in medicines'
             /\ ~ResolvedGone(c) => ret'[c].outcome \in {"Ok", "Zero"}
             /\ ret'[c].outcome = "Ok"
                  => /\ 100 * ret'[c].value =
                          (IF S >= 1000 THEN 95 ELSE 105) * S
                     /\ Len(sale_items') =
                          Len(sale_items) + Cardinality(ResolvedNames(c))

\* the sum of price x quantity over the lines of an in-memory bill whose
\* medicine exists with a quantity >= the requested one
RECURSIVE MemInStockTotalFrom(_, _, _)
MemInStockTotalFrom(meds, purchases, i) ==
    IF i > Len(purchases) THEN 0
    ELSE (IF /\ purchases[i].name \in DOMAIN meds
             /\ purchases[i].qty <= meds[purchases[i].name].quantity
          THEN meds[purchases[i].name].price * purchases[i].qty
          ELSE 0) + MemInStockTotalFrom(meds, purchases, i + 1)

\* generate_bill of the in-memory ledger bills exactly the lines whose
\* medicine exists with a quantity >= the requested one and changes no stock
MemoryResolvesIffInStock ==
    MemStep("bill")
    => /\ ret'[MemClient].value =
            MemInStockTotalFrom(mem_medicines, frame'[MemClient].purchases, 1)
       /\ mem_medicines' = mem_medicines

\* C8 as claimed: generate_bill resolves a line exactly when its medicine
\* exists and the requested quantity is <= the available one, in the SQLite
\* ledger and in the in-memory ledger; every other line is skipped, adds
\* nothing to the subtotal and leaves stock unchanged, and the resolved lines
\* are billed
C8_ResolvedIffInStock ==
    [][/\ \A c \in Clients : SqliteResolvesIffInStock(c)
       /\ MemoryResolvesIffInStock]_vars

\* C8 in the SQLite ledger alone holds
C8_SqliteResolvedIffInStock ==
    [][\A c \in Clients : SqliteResolvesIffInStock(c)]_vars

\* a bill with one line skipped for lack of stock and one line resolved was
\* recorded
C8_Witness ==
    \E c \in Clients :
        /\ Billed(c, "Ok")
        /\ Len(frame[c].purchases) = 2
        /\ Cardinality(ResolvedNames(c)) = 1
        /\ \E i \in 1..2 :
              /\ frame[c].purchases[i].name \notin ResolvedNames(c)
              /\ Named(frame[c].purchases[i].name) # {}
        /\ ret[c].value > 0
        /\ Len(sale_items) = 1

\* the price typed for a binary64 price of the list, in cents
CentsOf(price) == (CHOOSE e \in PriceList : e.f64 = price).cents

\* the subtotal of client c's bill in cents, over the prices as typed
RECURSIVE SubtotalCentsFrom(_, _)
SubtotalCentsFrom(c, i) ==
    IF i > Len(frame[c].purchases) THEN 0
    ELSE LET line == frame[c].purchases[i]
         IN (IF line.name \in ResolvedNames(c)
             THEN CentsOf(frame[c].meds_info[line.name].price) * line.qty
             ELSE 0) + SubtotalCentsFrom(c, i + 1)

SubtotalCents(c) == SubtotalCentsFrom(c, 1)

\* client c's generate_bill on binary64 amounts has returned a total
Priced(c) ==
    pc[c] = "done" /\ ret[c].op = "bill" /\ ret[c].outcome \in {"Ok", "Zero"}

\* the claimed total of a subtotal of S cents that is a multiple of 20 units
ClaimedTotal(S) ==
    ((S \div 100) * (IF S >= 100 * DiscountThreshold
                     THEN 100 + TaxPercent - DiscountPercent
                     ELSE 100 + TaxPercent)) \div 100

\* C9 as claimed: for the subtotal S of the resolved lines generate_bill
\* returns S + 5% of S - (10% of S if S >= 1000, else 0): the total is below
\* S exactly when S >= 1000, it is the exact amount when S is a multiple of
\* 20 (950 for 1000, 210 for 200), and bills of the same lines entered in
\* different orders return the same total
C9_TotalFormula ==
    /\ \A c \in Clients :
          Priced(c) =>
            LET S == SubtotalCents(c)
            IN /\ S >= 100 * DiscountThreshold
                    <=> ~NatGeq(NatMul(ret[c].value, IntLimbs(100)),
                                ShiftBits(IntLimbs(S), F64Scale))
               /\ S % 2000 = 0 => ret[c].value = F64Int(ClaimedTotal(S))
    /\ (Priced(1) /\ Priced(2)) => ret[1].value = ret[2].value

\* on whole prices whose subtotal is a multiple of 20 the binary64 total is
\* the total on whole amounts
WholeAmountsExact ==
    \A c \in Clients :
        (/\ Priced(c)
         /\ \A n \in ResolvedNames(c) :
               CentsOf(frame[c].meds_info[n].price) % 100 = 0
         /\ SubtotalCents(c) % 2000 = 0)
        => ret[c].value = F64Int(BillTotal(SubtotalCents(c) \div 100))

\* C10: a generate_bill whose subtotal is 0 returns 0, records no Sale and no
\* sale-item and changes no quantity
C10_ZeroSubtotalNoSale ==
    [][\A c \in Clients :
          (BillStep(c) /\ BillSubtotal(c) = 0)
          => /\ ret'[c].value = 0
             /\ ret'[c].outcome = "Zero"
             /\ LedgerUnchanged]_vars

\* a bill whose only line asked for more than the stock returned 0
C10_Witness ==
    \E c \in Clients :
        /\ Billed(c, "Zero")
        /\ Len(frame[c].purchases) = 1
        /\ ResolvedNames(c) = {}
        /\ Named(frame[c].purchases[1].name) # {}
        /\ sales = <<>>

\* what sell_medicine would answer, now, to a request for that medicine and
\* quantity
SellWouldAnswer(name, qty) ==
    SellOutcome(SelectByName(medicines, name), qty, today)

\* C11: generate_bill decrements the stock of, and records a sale-item for,
\* only medicines that sell_medicine would sell at that moment: a recorded
\* bill has no resolved line that sell_medicine would then refuse, as it
\* refuses a medicine whose expiry is before today
C11_BillSellsWhatSellWould ==
    [][\A c \in Clients :
          (BillStep(c) /\ ret'[c].outcome = "Ok")
          => \A n \in ResolvedNames(c) :
                SellWouldAnswer(n, QtyOf(frame[c].purchases, n)) = "Ok"]_vars

\* C11 for medicines without an expiry date, billed from reads that are
\* still current, holds: the stock check of the first loop is the stock
\* check of sell_medicine
BillStockCheckIsSellStockCheck ==
    [][\A c \in Clients :
          (/\ BillStep(c) /\ ret'[c].outcome = "Ok"
           /\ BillReadsCurrent(c)
           /\ \A n \in ResolvedNames(c) : frame[c].meds_info[n].expiry = NULL)
          => \A n \in ResolvedNames(c) :
                SellWouldAnswer(n, QtyOf(frame[c].purchases, n)) = "Ok"]_vars

\* a step of client c's record_prescription: the customer lookup, or the
\* write block that returns
RxStep(c) ==
    \/ pc[c] = "idle" /\ pc'[c] = "rx"
    \/ pc[c] = "rx" /\ pc'[c] = "done"

\* client c's record_prescription returned
Prescribed(c) == pc[c] = "done" /\ ret[c].op = "rx"

\* C12: record_prescription leaves every medicine's quantity and price
\* unchanged and adds no sale and no sale-item, in the SQLite ledger (every
\* step of the call) and in the in-memory ledger
C12_RxLeavesStockAndSales ==
    [][((\E c \in Clients : RxStep(c)) \/ MemStep("rx"))
       => /\ medicines' = medicines
          /\ sales' = sales
          /\ sale_items' = sale_items
          /\ mem_medicines' = mem_medicines]_vars

\* a prescription with a line for a medicine in stock was recorded
C12_Witness ==
    \E c \in Clients :
       /\ Prescribed(c)
       /\ \E i \in 1..Len(prescription_items) :
             /\ prescription_items[i].medicine_id \in MedIds(medicines)
             /\ RowById(medicines, prescription_items[i].medicine_id).quantity
                  >= prescription_items[i].quantity
             /\ prescription_items[i].quantity > 0

\* the customers row client c's prescription will be attached to, after the
\* lookup
AttachedCustomer(c) == customers'[frame'[c].customer_id]

\* C13: record_prescription attaches the prescription to the customer whose
\* (name, phone) is exactly the pair given, created if absent: whatever the
\* call, the row _get_or_create_customer answers has that name and that
\* phone, never an absent or different phone
C13_AttachedToExactPair ==
    [][\A c \in Clients, n \in CustomerNames, ph \in Phones, it \in RxItems :
          RxCall(c, n, ph, it)
          => AttachedCustomer(c) = [name |-> n, phone |-> ph]]_vars

\* what the lookup does ensure: the row has the given name, and the given
\* phone or none
AttachedToPairOrNoPhone ==
    [][\A c \in Clients, n \in CustomerNames, ph \in Phones, it \in RxItems :
          RxCall(c, n, ph, it)
          => /\ AttachedCustomer(c).name = n
             /\ AttachedCustomer(c).phone \in {ph, NULL}]_vars

\* the step in which client c's record_prescription writes and returns
RxCommitStep(c) == pc[c] = "rx" /\ pc'[c] = "done"

\* the input pairs whose medicine exists in the SQLite ledger, in order
KnownItems(items) == SelectSeq(items, LAMBDA it : Named(it.name) # {})

\* the input pairs whose medicine exists in the in-memory ledger, in order
MemKnownItems(items) ==
    SelectSeq(items, LAMBDA it : it.name \in DOMAIN mem_medicines)

\* the rows the step appended to prescription_items
NewRxItems ==
    SubSeq(prescription_items', Len(prescription_items) + 1,
           Len(prescription_items'))

\* client c's write block appends one prescriptions row, of the customer the
\* lookup answered, and one prescription_items row, of that prescription,
\* for every input pair whose medicine exists and for no other
SqliteRxExactlyKnownItems(c) ==
    LET known == KnownItems(frame[c].purchases)
    IN /\ Len(prescriptions') = Len(prescriptions) + 1
       /\ SubSeq(prescriptions', 1, Len(prescriptions)) = prescriptions
       /\ prescriptions'[Len(prescriptions')].customer_id = frame[c].customer_id
       /\ Len(NewRxItems) = Len(known)
       /\ \A i \in 1..Len(known) :
             /\ NewRxItems[i].prescription_id = Len(prescriptions')
             /\ NewRxItems[i].medicine_id
                  = SelectByName(medicines, known[i].name).id
             /\ NewRxItems[i].quantity = known[i].qty

\* the in-memory record_prescription appends one prescription, of the given
\* customer, whose items are the input pairs whose medicine exists
MemoryRxExactlyKnownItems ==
    /\ Len(mem_prescriptions') = Len(mem_prescriptions) + 1
    /\ SubSeq(mem_prescriptions', 1, Len(mem_prescriptions)) = mem_prescriptions
    /\ mem_prescriptions'[Len(mem_prescriptions')] =
         [customer |-> frame'[MemClient].customer,
          medicines |-> MemKnownItems(frame'[MemClient].purchases)]

\* C14: record_prescription creates exactly one prescription, owned by the
\* resolved customer, whose items are exactly the input pairs whose medicine
\* exists; a pair naming an unknown medicine is skipped; in the SQLite
\* ledger and in the in-memory ledger
C14_RxItemsExactlyKnown ==
    [][/\ \A c \in Clients : RxCommitStep(c) => SqliteRxExactlyKnownItems(c)
       /\ MemStep("rx") => MemoryRxExactlyKnownItems]_vars

\* C14 for the SQLite ledger alone
C14_SqliteRxItemsExactlyKnown ==
    [][\A c \in Clients : RxCommitStep(c) => SqliteRxExactlyKnownItems(c)]_vars

\* a SQLite prescription of two pairs was recorded with one item: the other
\* pair named an unknown medicine
C14_Witness ==
    \E c \in Clients :
       /\ Prescribed(c)
       /\ Len(frame[c].purchases) = 2
       /\ Len(prescriptions) = 1
       /\ Len(prescription_items) = 1

\* the step in which client c's add_medicine writes and returns
AddWriteStep(c) == pc[c] = "add_write" /\ pc'[c] = "done"

\* client c's add_medicine found a row, still as it was read, and its write
\* leaves that row with the given price, supplier and expiry and with the
\* quantity it had plus the given one
SqliteAddOverwritesAndAdds(c) ==
    LET f == frame[c]
    IN (f.med # NoneMed /\ ReadIsCurrent(c))
       => LET old == RowById(medicines, f.med.id)
              new == RowById(medicines', f.med.id)
          IN /\ new.price = f.price
             /\ new.supplier_id = f.supplier_id
             /\ new.expiry = f.expiry
             /\ new.quantity = old.quantity + f.quantity
             /\ new.name = old.name

\* the in-memory add_medicine of a name already in self.medicines leaves it
\* with the given price and supplier and with the quantity it had plus the
\* given one
MemoryAddOverwritesAndAdds ==
    LET f == frame'[MemClient]
    IN f.name \in DOMAIN mem_medicines
       => mem_medicines'[f.name] =
            [price |-> f.price,
             quantity |-> mem_medicines[f.name].quantity + f.quantity,
             supplier |-> f.supplier_id]

\* C16: add_medicine on an existing medicine overwrites its price, supplier
\* and expiry with the given values (last write wins) and adds the given
\* quantity to its quantity, in the SQLite ledger and in the in-memory ledger
C16_AddOverwritesAndAdds ==
    [][/\ \A c \in Clients : AddWriteStep(c) => SqliteAddOverwritesAndAdds(c)
       /\ MemStep("add") => MemoryAddOverwritesAndAdds]_vars

\* C16 for the SQLite ledger alone
C16_SqliteAddOverwritesAndAdds ==
    [][\A c \in Clients : AddWriteStep(c) => SqliteAddOverwritesAndAdds(c)]_vars

\* a SQLite add_medicine updated an existing medicine to another price and
\* another expiry
C16_Witness ==
    \E c \in Clients :
       /\ pc[c] = "done" /\ ret[c].op = "add" /\ ret[c].outcome = "Updated"
       /\ frame[c].med.price # frame[c].price
       /\ frame[c].med.expiry # frame[c].expiry
       /\ \E r \in medicines :
             /\ r.id = frame[c].med.id
             /\ r.price = frame[c].price
             /\ r.expiry = frame[c].expiry

\* the step that is client c's delete_medicine
DeleteStep(c) ==
    pc[c] = "idle" /\ pc'[c] = "done" /\ ret'[c].op = "delete"

\* the sales and prescriptions recorded so far are as they were
HistoryUnchanged ==
    /\ sales' = sales
    /\ sale_items' = sale_items
    /\ prescriptions' = prescriptions
    /\ prescription_items' = prescription_items

\* C18: delete_medicine of an absent name fails with NotFound and changes
\* nothing; of an existing medicine it succeeds and removes the record, also
\* when sale-items or prescription items reference the medicine, and leaves
\* those historical items unchanged
C18_DeleteRemovesAlsoReferenced ==
    [][\A c \in Clients :
          DeleteStep(c)
          => IF Named(frame'[c].name) = {}
             THEN ret'[c].outcome = "NotFound" /\ LedgerUnchanged
             ELSE /\ ret'[c].outcome = "Ok"
                  /\ medicines' = medicines \ Named(frame'[c].name)
                  /\ HistoryUnchanged]_vars

\* C18 for a medicine that no sale-item and no prescription item references
DeleteRemovesUnreferenced ==
    [][\A c \in Clients :
          (DeleteStep(c)
           /\ MedIds(Named(frame'[c].name)) \cap ReferencedMedIds = {})
          => IF Named(frame'[c].name) = {}
             THEN ret'[c].outcome = "NotFound" /\ LedgerUnchanged
             ELSE /\ ret'[c].outcome = "Ok"
                  /\ medicines' = medicines \ Named(frame'[c].name)
                  /\ HistoryUnchanged]_vars

\* the rows of s are the first rows of t, unchanged and in the same order
IsPrefix(s, t) == Len(s) <= Len(t) /\ SubSeq(t, 1, Len(s)) = s

\* C19: sales and prescriptions are append-only: no step of any operation
\* changes or removes an existing sale, sale-item, prescription or
\* prescription item, in the SQLite ledger or in the in-memory ledger
C19_HistoryAppendOnly ==
    [][/\ IsPrefix(sales, sales')
       /\ IsPrefix(sale_items, sale_items')
       /\ IsPrefix(prescriptions, prescriptions')
       /\ IsPrefix(prescription_items, prescription_items')
       /\ IsPrefix(mem_prescriptions, mem_prescriptions')]_vars

\* a medicine was sold and an add_medicine then changed its price: the
\* sale-item is there, at the price of the sale
C19_Witness ==
    /\ Len(sale_items) = 1
    /\ \E c \in Clients :
          pc[c] = "done" /\ ret[c].op = "add" /\ ret[c].outcome = "Updated"
    /\ \E r \in medicines :
          /\ r.id = sale_items[1].medicine_id
          /\ r.price # sale_items[1].unit_price

\* the total quantity of the rows of rows
RECURSIVE TotalQuantity(_)
TotalQuantity(rows) ==
    IF rows = {} THEN 0
    ELSE LET r == CHOOSE x \in rows : TRUE
         IN r.quantity + TotalQuantity(rows \ {r})

\* C15: adding a medicine never duplicates it: after any sequence or
\* interleaving of adds through the command line program's add_medicine and
\* the HTTP service's create_medicine there is at most one record per name
C15_OneRecordPerName == \A n \in MedNames : Cardinality(Named(n)) <= 1

\* what create_medicine does ensure: it is additive over the rows of a name;
\* the total quantity of the name's rows grows by the quantity given
WebCreateAddsQuantity ==
    [][\A c \in Clients :
          (pc[c] = "web_insert" /\ pc'[c] = "done")
          => TotalQuantity({r \in medicines' : r.name = frame[c].name})
               = TotalQuantity(Named(frame[c].name)) + frame[c].quantity]_vars

\* the step in which client c's create_medicine inserts and returns
WebInsertStep(c) == pc[c] = "web_insert" /\ pc'[c] = "done"

\* the rows of medicines the step created or modified
WrittenRows == medicines' \ medicines

\* every row the step wrote references the supplier client c named, and that
\* supplier exists
WrittenWithSupplier(c) ==
    \A r \in WrittenRows :
       /\ r.supplier_id = frame[c].supplier_name
       /\ r.supplier_id \in suppliers'

\* C17: add_medicine given the name of a supplier that does not exist either
\* aborts, the medicine being neither created nor modified, or the supplier
\* is created and the medicine references it: the command line program's
\* write after a lookup that found no supplier, and the HTTP service's
\* insert for a given supplier name, never store the medicine with an empty
\* supplier reference
C17_UnknownSupplierNeverDropped ==
    [][\A c \in Clients :
          /\ (AddWriteStep(c) /\ frame[c].supplier_name # NULL
                              /\ frame[c].supplier_id = NULL)
             => WrittenRows = {} \/ WrittenWithSupplier(c)
          /\ (WebInsertStep(c) /\ frame[c].supplier_name # NULL)
             => WrittenRows = {} \/ WrittenWithSupplier(c)]_vars

\* C17 for the HTTP service alone: the supplier is created and referenced
WebUnknownSupplierCreated ==
    [][\A c \in Clients :
          (WebInsertStep(c) /\ frame[c].supplier_name # NULL)
          => WrittenWithSupplier(c) /\ WrittenRows # {}]_vars

\* client c's call is the only call made so far and it failed with a storage
\* error
OnlyCallFailed(c, op) ==
    /\ pc[c] = "done" /\ ret[c].op = op /\ ret[c].outcome = "OperationalError"
    /\ \A d \in Clients \ {c} : pc[d] = "idle"

\* the whole ledger is as it was before any call
LedgerAsAtStart ==
    /\ medicines = StorageMedicines
    /\ customers = <<>>
    /\ suppliers = {}
    /\ sales = <<>>
    /\ sale_items = <<>>
    /\ prescriptions = <<>>
    /\ prescription_items = <<>>

\* C20: when sell_medicine or record_prescription fails with a storage error
\* at any of its write steps, the whole ledger is as it was before the call:
\* no partial effect, such as a newly created customer, remains
C20_StorageFailureLeavesNothing ==
    \A c \in Clients :
       (OnlyCallFailed(c, "sell") \/ OnlyCallFailed(c, "rx"))
       => LedgerAsAtStart

\* C20 for sell_medicine alone
SellStorageFailureLeavesNothing ==
    \A c \in Clients : OnlyCallFailed(c, "sell") => LedgerAsAtStart

\* a record_prescription that failed leaves no prescription and no item
RxStorageFailureLeavesNoPrescription ==
    \A c \in Clients :
       OnlyCallFailed(c, "rx")
       => /\ medicines = StorageMedicines
          /\ sales = <<>> /\ sale_items = <<>>
          /\ prescriptions = <<>> /\ prescription_items = <<>>

\* the step that is client c's show_today_sales
TodaySalesStep(c) ==
    pc[c] = "idle" /\ pc'[c] = "done" /\ ret'[c].op = "today_sales"

\* the ids of the sales dated that day
SalesOn(day) == {i \in 1..Len(sales) : sales[i].sale_date = DayStr[day]}

\* the sum of total_amount over the sales of those ids
RECURSIVE SumOfSales(_)
SumOfSales(ids) ==
    IF ids = {} THEN 0
    ELSE LET i == CHOOSE x \in ids : TRUE
         IN sales[i].total_amount + SumOfSales(ids \ {i})

\* C21: show_today_sales answers (sum, count): the sum of total_amount over
\* exactly the sales dated today, made by sell_medicine or by generate_bill,
\* and their number, sales of other dates excluded; (0, 0) when no sale is
\* dated today
C21_TodaySalesTotal ==
    [][\A c \in Clients :
          TodaySalesStep(c)
          => /\ ret'[c].value = [total |-> SumOfSales(SalesOn(today)),
                                 count |-> Cardinality(SalesOn(today))]
             /\ SalesOn(today) = {} => ret'[c].value = [total |-> 0, count |-> 0]
             /\ LedgerUnchanged]_vars

\* the report answered for two sales of today, one by sell_medicine and one
\* by generate_bill, while the table has a sale of another day
C21_Witness ==
    \E c \in Clients :
       /\ pc[c] = "done" /\ ret[c].op = "today_sales"
       /\ ret[c].value = [total |-> 1025, count |-> 2]
       /\ \E i \in 1..Len(sales) : sales[i].sale_date # DayStr[today]
       /\ \E d \in Clients : Sold(d, "Ok")

\* the elements of a sequence
Range(seq) == {seq[i] : i \in DOMAIN seq}

\* the stored expiry parses and its date is before the day
ParsesBefore(expiry_str, day) ==
    /\ expiry_str # NULL
    /\ Strptime(expiry_str) # ValueError
    /\ Strptime(expiry_str) < day

\* the stored expiry is set and does not parse
FailsToParse(expiry_str) ==
    expiry_str # NULL /\ Strptime(expiry_str) = ValueError

\* the steps that are client c's display_stock and show_critical_stock
DisplayStep(c) ==
    pc[c] = "idle" /\ pc'[c] = "done" /\ ret'[c].op = "display"

CriticalStep(c) ==
    pc[c] = "idle" /\ pc'[c] = "done" /\ ret'[c].op = "critical"

\* the report has one line per medicine, and the line of each medicine has
\* each mark exactly when the medicine's condition for it holds
DisplayMarksExact(lines) ==
    /\ Len(lines) = Cardinality(medicines)
    /\ \A r \in medicines :
          \E i \in DOMAIN lines :
             /\ lines[i].name = r.name
             /\ "LOW_STOCK" \in Range(lines[i].status)
                  <=> r.quantity < LowStockThreshold
             /\ "EXPIRED" \in Range(lines[i].status)
                  <=> ParsesBefore(r.expiry, today)
             /\ "INVALID_EXPIRY" \in Range(lines[i].status)
                  <=> FailsToParse(r.expiry)

\* C22: the stock report marks every medicine LOW_STOCK exactly when its
\* quantity < 5, EXPIRED exactly when its expiry parses and is before today,
\* INVALID_EXPIRY exactly when its stored expiry does not parse, each mark
\* independent of the others; show_critical_stock lists exactly the low
\* stock and the expired medicines; neither fails on an expiry that does not
\* parse
C22_StockReportMarks ==
    [][\A c \in Clients :
          /\ DisplayStep(c)
             => /\ ret'[c].outcome \in {"Ok", "Empty"}
                /\ DisplayMarksExact(ret'[c].value)
          /\ CriticalStep(c)
             => /\ ret'[c].outcome = "Ok"
                /\ \A r \in medicines :
                      /\ r.name \in Range(ret'[c].value.low_stock)
                           <=> r.quantity < LowStockThreshold
                      /\ r.name \in Range(ret'[c].value.expired)
                           <=> ParsesBefore(r.expiry, today)]_vars

\* a report with a line marked INVALID_EXPIRY and LOW_STOCK, a line marked
\* EXPIRED and LOW_STOCK
C22_Witness ==
    \E c \in Clients :
       /\ pc[c] = "done" /\ ret[c].op = "display"
       /\ Len(ret[c].value) = 2
       /\ ret[c].value[1].status = <<"INVALID_EXPIRY", "LOW_STOCK">>
       /\ ret[c].value[2].status = <<"EXPIRED", "LOW_STOCK">>

\* C28: sell_medicine on a medicine whose stored expiry is set but does not
\* parse as a date treats it as not expired: with q <= its quantity (no other
\* client having changed the medicine since the call read it) the sale
\* succeeds, the quantity decreases by q, and the Sale dated today and its
\* sale-item are appended
C28_UnparsedExpirySells ==
    [][\A c \in Clients :
          (/\ SellStep(c)
           /\ frame[c].med # NoneMed
           /\ ReadIsCurrent(c)
           /\ frame[c].quantity <= frame[c].med.quantity
           /\ FailsToParse(frame[c].med.expiry))
          => LET q == frame[c].quantity
                 row == RowById(medicines, frame[c].med.id)
             IN /\ ret'[c] = [op |-> "sell", outcome |-> "Ok",
                              value |-> row.price * q]
                /\ medicines' = (medicines \ {row}) \cup
                                  {[row EXCEPT !.quantity = row.quantity - q]}
                /\ sales' = Append(sales, [sale_date |-> DayStr[today],
                                           total_amount |-> row.price * q])
                /\ sale_items' = Append(sale_items,
                                        [sale_id |-> Len(sales) + 1,
                                         medicine_id |-> row.id,
                                         quantity |-> q,
                                         unit_price |-> row.price])]_vars

\* a medicine whose expiry does not parse was sold
C28_Witness ==
    \E c \in Clients :
       /\ Sold(c, "Ok")
       /\ frame[c].med.expiry = BadExpiry
       /\ frame[c].quantity > 0
       /\ \E r \in medicines :
             /\ r.id = frame[c].med.id
             /\ r.quantity = frame[c].med.quantity - frame[c].quantity
       /\ Len(sales) = 1 /\ Len(sale_items) = 1

\* text contains s as a substring, character for character
Contains(text, s) ==
    \E i \in 1..(Len(text) + 1) :
       /\ i + Len(s) - 1 <= Len(text)
       /\ SubSeq(text, i, i + Len(s) - 1) = s

\* client c's search_medicine returned
Searched(c) == pc[c] = "done" /\ ret[c].op = "search"

\* the answer lists each row once, in the order of the names
AnswerOrdered(c) ==
    \A i, j \in DOMAIN ret[c].value :
       i < j => /\ ret[c].value[i] # ret[c].value[j]
                /\ BinaryLeq(ret[c].value[i], ret[c].value[j])

\* C23: search_medicine(s) answers exactly the medicines whose name contains
\* s as a case-sensitive substring, no character of s being a wildcard and a
\* query that differs from a name only in letter case matching nothing,
\* ordered by name
C23_SearchCaseSensitiveSubstring ==
    \A c \in Clients :
       Searched(c)
       => /\ Range(ret[c].value)
               = {r.name : r \in {m \in medicines : Contains(m.name, frame[c].name)}}
          /\ AnswerOrdered(c)

\* what the LIKE does ensure: every medicine whose name contains s is in the
\* answer, and the answer is ordered by name
SearchFindsEverySubstring ==
    \A c \in Clients :
       Searched(c)
       => /\ \A m \in medicines :
                Contains(m.name, frame[c].name) => m.name \in Range(ret[c].value)
          /\ AnswerOrdered(c)

\* the quantity add_medicine calls have restocked of that name: what the
\* first state holds of it, and the quantity of every add_medicine returned
RestockedOf(name) ==
    TotalQuantity({r \in StorageMedicines : r.name = name})
    + (IF pc[1] = "done" /\ ret[1].op = "add" /\ frame[1].name = name
       THEN frame[1].quantity ELSE 0)
    + (IF pc[2] = "done" /\ ret[2].op = "add" /\ frame[2].name = name
       THEN frame[2].quantity ELSE 0)

\* the total quantity of the sale-items of those indexes
RECURSIVE SoldQuantity(_)
SoldQuantity(idxs) ==
    IF idxs = {} THEN 0
    ELSE LET i == CHOOSE x \in idxs : TRUE
         IN sale_items[i].quantity + SoldQuantity(idxs \ {i})

\* the total quantity of the sale-items that reference a medicine of that name
SoldOf(name) ==
    SoldQuantity({i \in 1..Len(sale_items) :
                    sale_items[i].medicine_id \in MedIds(Named(name))})

\* the quantity in stock of that name is what was restocked less what was sold
Conserved(name) ==
    TotalQuantity(Named(name)) = RestockedOf(name) - SoldOf(name)

\* C24: stock conservation in the SQLite ledger: in every reachable state the
\* quantity of every medicine equals the total quantity restocked through
\* add_medicine minus the total quantity of the sale-items that reference
\* it, also when add_medicine, sell_medicine and generate_bill interleave
C24_StockConserved == \A n \in MedNames : Named(n) # {} => Conserved(n)

\* C24 for calls that do not interleave: while a client has not called yet,
\* the other's call ran alone
StockConservedAlone ==
    (\E c \in Clients : pc[c] = "idle")
    => \A n \in MedNames : Named(n) # {} => Conserved(n)

\* C25: whenever generate_bill resolved at least one line (no other client
\* having changed a resolved medicine since), a Sale is recorded and every
\* resolved medicine's quantity is decremented by its requested quantity;
\* the return of 0 without a sale is taken only when no line is resolved,
\* also when every resolved line has price 0 or requested quantity 0
C25_SaleWheneverResolved ==
    [][\A c \in Clients :
          (BillStep(c) /\ BillReadsCurrent(c))
          => /\ ResolvedNames(c) # {}
                => /\ ret'[c].outcome = "Ok"
                   /\ Len(sales') = Len(sales) + 1
                   /\ medicines' =
                        {IF r.name \in ResolvedNames(c)
                         THEN [r EXCEPT !.quantity =
                                 r.quantity - QtyOf(frame[c].purchases, r.name)]
                         ELSE r : r \in medicines}
             /\ ret'[c].outcome = "Zero" => ResolvedNames(c) = {}]_vars

\* C26: referential integrity of the SQLite ledger: in every reachable state
\* every sale-item references an existing Sale and an existing medicine,
\* every prescription item an existing Prescription and an existing
\* medicine, every Prescription an existing customer, and every non-empty
\* supplier reference of a medicine an existing supplier
C26_ReferentialIntegrity ==
    /\ \A i \in 1..Len(sale_items) :
          /\ sale_items[i].sale_id \in 1..Len(sales)
          /\ sale_items[i].medicine_id \in MedIds(medicines)
    /\ \A i \in 1..Len(prescription_items) :
          /\ prescription_items[i].prescription_id \in 1..Len(prescriptions)
          /\ prescription_items[i].medicine_id \in MedIds(medicines)
    /\ \A i \in 1..Len(prescriptions) :
          prescriptions[i].customer_id \in 1..Len(customers)
    /\ \A r \in medicines :
          r.supplier_id # NULL => r.supplier_id \in suppliers

\* a medicine was sold or prescribed, its delete_medicine was refused and
\* the medicine is still there
C26_Witness ==
    \E c \in Clients :
       /\ pc[c] = "done" /\ ret[c].op = "delete"
       /\ ret[c].outcome = "IntegrityError"
       /\ Len(sale_items) + Len(prescription_items) > 0
       /\ Named(frame[c].name) # {}

\* the indexes of the sale-items of the Sale of that id
ItemsOfSale(id) == {j \in 1..Len(sale_items) : sale_items[j].sale_id = id}

\* the sum of unit price x quantity over the sale-items of those indexes, on
\* whole amounts
RECURSIVE ItemsSum(_)
ItemsSum(idxs) ==
    IF idxs = {} THEN 0
    ELSE LET j == CHOOSE x \in idxs : TRUE
         IN sale_items[j].unit_price * sale_items[j].quantity
            + ItemsSum(idxs \ {j})

\* the same sum in cents, over the unit prices as typed
RECURSIVE ItemsSumCents(_)
ItemsSumCents(idxs) ==
    IF idxs = {} THEN 0
    ELSE LET j == CHOOSE x \in idxs : TRUE
         IN CentsOf(sale_items[j].unit_price) * sale_items[j].quantity
            + ItemsSumCents(idxs \ {j})

\* C27: sale consistency: in every reachable state every Sale has at least
\* one sale-item, and a Sale created by generate_bill (every Sale of these
\* runs) has total_amount equal to the sum S of unit price x quantity over
\* its items plus 5% tax minus the 10% discount when S >= 1000: the total is
\* below S exactly when S >= 1000, and it is the exact amount when S is a
\* multiple of 20
C27_SaleTotalsConsistent ==
    \A i \in 1..Len(sales) :
       /\ ItemsOfSale(i) # {}
       /\ LET S == ItemsSumCents(ItemsOfSale(i))
          IN /\ S >= 100 * DiscountThreshold
                  <=> ~NatGeq(NatMul(sales[i].total_amount, IntLimbs(100)),
                              ShiftBits(IntLimbs(S), F64Scale))
             /\ S % 2000 = 0 => sales[i].total_amount = F64Int(ClaimedTotal(S))

\* C27 on whole amounts: every Sale has at least one sale-item and its
\* total_amount is the sum over its items (sell_medicine) or that sum plus
\* tax minus discount (generate_bill)
SaleTotalsConsistentOnWholeAmounts ==
    \A i \in 1..Len(sales) :
       /\ ItemsOfSale(i) # {}
       /\ sales[i].total_amount \in
            {ItemsSum(ItemsOfSale(i)), BillTotal(ItemsSum(ItemsOfSale(i)))}
====
